---- MODULE Spec2Model ----
(***************************************************************************)
(* Configuration search core of model_analyzer: the automatic model-config *)
(* generator (instance count x max batch size state machine), the perf     *)
(* analyzer config generator (load sweep with early stop) and the run      *)
(* config generator (nested composition over N models with feedback        *)
(* routing).                                                               *)
(*                                                                         *)
(* Python objects are modelled by value: a generator object is a record of *)
(* its fields, a dict is a function on its keys, a list is a sequence.     *)
(* A method is an operator from the record (and its arguments) to the      *)
(* record after the call.                                                  *)
(*                                                                         *)
(* An element of a feedback list is a record [tp, call]: tp is the value   *)
(* of the perf_throughput metric of the measurement object, or NoneTp when *)
(* the element is None; call is the identity of the object, given by the   *)
(* number of the set_last_results call of the run generator that reported  *)
(* it (0 where no run generator is involved).                              *)
(***************************************************************************)
EXTENDS Integers, Sequences, FiniteSets, TLC

NoneTp == 0 - 1

IsNone(m) == m.tp = NoneTp

Meas(tp) == [tp |-> tp, call |-> 0]

NoneMeas == [tp |-> NoneTp, call |-> 0]

(***************************************************************************)
(* Bounds of the model.                                                    *)
(***************************************************************************)
\* largest run_config_search_max_instance_count drawn
MaxInst == 3
\* largest run_config_search_max_model_batch_size drawn
MaxBs == 4
\* number of next() calls the driver of one serving generator makes at most
MaxEmit == 8

(***************************************************************************)
(* Small helpers over sequences.                                           *)
(***************************************************************************)
Last(s) == s[Len(s)]

RECURSIVE Flatten(_)
Flatten(ss) == IF ss = <<>> THEN <<>> ELSE Head(ss) \o Flatten(Tail(ss))

Range(s) == {s[i] : i \in DOMAIN s}

(***************************************************************************)
(* State.  Each specification below drives one of the generators; the      *)
(* variables of the others keep their idle values.                         *)
(***************************************************************************)
VARIABLES
  a_cfg,       \* configuration of the generator
  a_mcg,       \* the generator object
  a_emitted,   \* the ModelConfigs returned by next(), in order
  a_poll,      \* what the last is_done() returned
  a_lastop,    \* the last call the driver made
  a_hist       \* history of the driver's calls:
               \*   protocol  every next() directly followed an is_done()
               \*             that returned False
               \*   noNone    no feedback list so far contained None
               \*   fb        feedback recorded since the last next():
               \*             "none", "clean" or "hasNone"
               \*   prevFb    fb at the time of the last next()

autoVars == <<a_cfg, a_mcg, a_emitted, a_poll, a_lastop, a_hist>>

VARIABLES
  p_cli,      \* the CLI configuration the generator was built from
  p_flags,    \* the perf_analyzer_flags of the model
  p_tps,      \* the perf_throughput values the load tool reports in this run
  p_pacg,     \* the generator object
  p_emitted,  \* the configs returned by next_config(), in order
  p_poll,     \* what the is_done() after the last call returned
  p_err,      \* the exception that ended the run, or "ok"
  p_hist      \* history of the driver's calls:
              \*   protocol  every next_config() followed an is_done()
              \*             that returned False
              \*   setWhileDone  the last call was a set_last_results made
              \*             when is_done() had returned True

perfVars == <<p_cli, p_flags, p_tps, p_pacg, p_emitted, p_poll, p_err, p_hist>>

VARIABLES
  r_cfg,      \* the configuration: [auto, cli] as above
  r_models,   \* the models the generator was built for, each with its
              \* triton_server_environment
  r_n,        \* the number of models
  r_st,       \* the RunConfigGenerator object and its coroutine:
              \*   gens  _curr_generators      cur  _curr_model_run_configs
              \*   ref   _curr_results, as the identity of the list each
              \*         entry refers to     heap the contents of the lists
              \*   pc    position of next_config(): "new", "yield", "stop"
              \*   out   what the last next() returned
              \*   err   the exception that ended the run, or "ok"
              \*   log   per level, the lists its generators were handed
              \*   triton_env  _triton_env
  r_emitted,  \* the RunConfigs returned by next(), in order
  r_poll,     \* what the is_done() after the last call returned
  r_calls,    \* the number of set_last_results calls made
  r_steps,    \* the number of calls made
  r_hist      \* history of the driver's calls:
              \*   doneSeen          some is_done() returned True
              \*   emittedAfterDone  next() returned a RunConfig after that
              \*   emittedWhileDone  next() returned a RunConfig although
              \*                     is_done() was True when it was called
              \*   earlyStop         some per-model generator cut a sweep short

runVars ==
  <<r_cfg, r_models, r_n, r_st, r_emitted, r_poll, r_calls, r_steps, r_hist>>

VARIABLES
  k_obj,      \* the object a single call is made on
  k_call,     \* the last call made on it: its name and its arguments
  k_ret       \* what that call returned, or the exception it raised

callVars == <<k_obj, k_call, k_ret>>

vars == <<autoVars, perfVars, runVars, callVars>>

(***************************************************************************)
(* BaseModelConfigGenerator / AutomaticModelConfigGenerator                *)
(*                                                                         *)
(* c : the configuration the generator was constructed with                *)
(*     [min_inst, max_inst, min_bs, max_bs, cpu_only, base_config]         *)
(*     base_config is the dict of the model's config file in the model     *)
(*     repository                                                          *)
(* g : the generator object                                                *)
(*     live       _live                                                    *)
(*     started    _state_machine_started                                   *)
(*     inst       _curr_instance_count                                     *)
(*     bs         _curr_max_batch_size                                     *)
(*     last       _last_results (a list of results, each a list of         *)
(*                measurements)                                            *)
(*     base       _base_model_name                                         *)
(*     name_index _model_name_index                                        *)
(*     pc         position of the coroutine next_config(): "new" before    *)
(*                the first next(), "yield" when suspended at the yield    *)
(***************************************************************************)
DEFAULT_PARAM_COMBO == [k \in {} |-> 0]

BaseModelName == "my-model"

McgInit(model_name) ==
  [live |-> FALSE, started |-> FALSE, inst |-> 0, bs |-> 0,
   last |-> <<>>, base |-> model_name, name_index |-> 0, pc |-> "new"]

InstanceKindMutAlwaysGpu(c) == "KIND_GPU"

InstanceKind(c) == IF c.cpu_only THEN "KIND_CPU" ELSE "KIND_GPU"

MaxBatchSizeLimitReachedMutNoDouble(c, g) == g.bs > c.max_bs

MaxBatchSizeLimitReached(c, g) == g.bs * 2 > c.max_bs

McgLastResultsErroneous(g) ==
  \E i \in DOMAIN g.last : \E j \in DOMAIN g.last[i] : IsNone(g.last[i][j])

DoneWalkingMaxBatchSize(c, g) ==
  MaxBatchSizeLimitReached(c, g) \/ McgLastResultsErroneous(g)

DoneWalkingInstanceCountMutGt(c, g) == g.inst > c.max_inst

DoneWalkingInstanceCount(c, g) == g.inst >= c.max_inst

DoneWalkingMutOr(c, g) ==
  DoneWalkingMaxBatchSize(c, g) \/ DoneWalkingInstanceCount(c, g)

DoneWalking(c, g) ==
  DoneWalkingMaxBatchSize(c, g) /\ DoneWalkingInstanceCount(c, g)

McgIsDoneMutNoLive(c, g) == DoneWalking(c, g)

McgIsDone(c, g) == g.live /\ DoneWalking(c, g)

StartStateMachineMutNoFlag(c, g) ==
  [g EXCEPT !.inst = 1, !.bs = c.min_bs]

StartStateMachine(c, g) ==
  [g EXCEPT !.started = TRUE, !.inst = 1, !.bs = c.min_bs]

StepMaxBatchSize(g) == [g EXCEPT !.bs = g.bs * 2]

StepInstanceCountMutStay(g) == g

StepInstanceCount(g) == [g EXCEPT !.inst = g.inst + 1]

ResetMaxBatchSizeMutKeep(c, g) == g

ResetMaxBatchSize(c, g) == [g EXCEPT !.bs = c.min_bs]

StepStateMachineMutIgnoreResults(c, g) ==
  IF MaxBatchSizeLimitReached(c, g)
  THEN StepInstanceCount(ResetMaxBatchSize(c, g))
  ELSE StepMaxBatchSize(g)

StepStateMachine(c, g) ==
  IF DoneWalkingMaxBatchSize(c, g)
  THEN StepInstanceCount(ResetMaxBatchSize(c, g))
  ELSE StepMaxBatchSize(g)

StepMutAlwaysStateMachine(c, g) == StepStateMachine(c, g)

Step(c, g) ==
  IF ~g.started THEN StartStateMachine(c, g) ELSE StepStateMachine(c, g)

GetCurrParamCombo(c, g) ==
  IF ~g.started
  THEN DEFAULT_PARAM_COMBO
  ELSE [dynamic_batching |-> [k \in {} |-> 0],
        max_batch_size   |-> g.bs,
        instance_group   |-> <<[count |-> g.inst, kind |-> InstanceKind(c)]>>]

GetModelVariantNameMutNoIncrement(g, param_combo) ==
  IF param_combo = DEFAULT_PARAM_COMBO
  THEN [name |-> <<g.base, "default">>, g |-> g]
  ELSE [name |-> <<g.base, "index", g.name_index>>, g |-> g]

\* f'{base}_config_default' is the pair <<base, "default">> and
\* f'{base}_config_{k}' the triple <<base, "index", k>>
GetModelVariantName(g, param_combo) ==
  IF param_combo = DEFAULT_PARAM_COMBO
  THEN [name |-> <<g.base, "default">>, g |-> g]
  ELSE [name |-> <<g.base, "index", g.name_index>>,
        g    |-> [g EXCEPT !.name_index = g.name_index + 1]]

\* the dict ModelConfig.create_from_file(repository/name) holds
GetBaseModelConfigDict(c) == c.base_config

MakeDirectModeModelConfigMutDropBase(c, g, param_combo) ==
  LET n == GetModelVariantName(g, param_combo)
  IN  [config |-> [name |-> n.name, combo |-> param_combo,
                   dict |-> ("name" :> n.name) @@ param_combo],
       g |-> n.g]

\* the emitted ModelConfig: its dict, which is the base dict with each key
\* of the overlay assigned and then 'name' assigned, together with the
\* overlay it was built from and its name (no overlay holds a None value)
MakeDirectModeModelConfig(c, g, param_combo) ==
  LET n == GetModelVariantName(g, param_combo)
  IN  [config |-> [name |-> n.name, combo |-> param_combo,
                   dict |-> ("name" :> n.name) @@ param_combo
                              @@ GetBaseModelConfigDict(c)],
       g |-> n.g]

GetNextModelConfig(c, g) ==
  MakeDirectModeModelConfig(c, g, GetCurrParamCombo(c, g))

\* one next() on the coroutine returned by next_config()
McgNextConfig(c, g) ==
  IF g.pc = "new"
  THEN GetNextModelConfig(c, [g EXCEPT !.live = TRUE, !.pc = "yield"])
  ELSE GetNextModelConfig(c, Step(c, g))

McgSetLastResults(g, measurements) == [g EXCEPT !.last = measurements]

(***************************************************************************)
(* Specification SpecAuto: one automatic generator and its driver.         *)
(* The driver may call is_done(), next() and set_last_results() in any     *)
(* order; the history variables record whether it kept to the loop         *)
(*    while not is_done(): next(); set_last_results(...)                   *)
(***************************************************************************)

\* the config file the tests use unless they give another one
DefaultBaseConfig == [max_batch_size |-> 8]

AutoConfigs ==
  [min_inst : 0..MaxInst, max_inst : 0..MaxInst,
   min_bs : 1..MaxBs, max_bs : 1..MaxBs, cpu_only : BOOLEAN,
   base_config : {DefaultBaseConfig}]

ValidAutoConfig(c) ==
  c.min_inst <= c.max_inst /\ c.min_bs <= c.max_bs

\* the search options of test_non_power_of_two_max_batch_size
NonPowerOfTwoConfig ==
  [min_inst |-> 1, max_inst |-> 2, min_bs |-> 3, max_bs |-> 15,
   cpu_only |-> FALSE, base_config |-> DefaultBaseConfig]

\* the search options and the config file of
\* test_direct_nonempty_default_config
NonemptyDefaultConfig ==
  [min_inst |-> 1, max_inst |-> 4, min_bs |-> 8, max_bs |-> 8,
   cpu_only |-> FALSE,
   base_config |-> [platform       |-> "fake_platform",
                    max_batch_size |-> 4,
                    instance_group |-> <<[count |-> 1, kind |-> "KIND_CPU"]>>]]

\* the search options and the config file of
\* test_search_dynamic_batching_subparameter
DynamicBatchingSubparameterConfig ==
  [min_inst |-> 1, max_inst |-> 4, min_bs |-> 8, max_bs |-> 8,
   cpu_only |-> FALSE,
   base_config |-> [max_batch_size   |-> 4,
                    instance_group   |-> <<[count |-> 1, kind |-> "KIND_GPU"]>>,
                    dynamic_batching |-> [max_queue_delay_microseconds |-> 100]]]

\* feedback lists handed to set_last_results
AutoFeedbacks ==
  { <<>>, << <<Meas(10)>> >>, << <<Meas(10)>>, <<Meas(10), NoneMeas>> >> }

HasNone(measurements) == NoneMeas \in Range(Flatten(measurements))

AutoInit ==
  /\ a_cfg \in {c \in AutoConfigs : ValidAutoConfig(c)}
               \cup {NonPowerOfTwoConfig, NonemptyDefaultConfig,
                     DynamicBatchingSubparameterConfig}
  /\ a_mcg = McgInit(BaseModelName)
  /\ a_emitted = <<>>
  /\ a_poll = FALSE
  /\ a_lastop = "init"
  /\ a_hist = [protocol |-> TRUE, noNone |-> TRUE,
               fb |-> "none", prevFb |-> "none"]

AutoIsDone ==
  /\ a_poll' = McgIsDone(a_cfg, a_mcg)
  /\ a_lastop' = "poll"
  /\ UNCHANGED <<a_cfg, a_mcg, a_emitted, a_hist, perfVars, runVars, callVars>>

AutoNextConfig ==
  /\ Len(a_emitted) < MaxEmit
  /\ LET r == McgNextConfig(a_cfg, a_mcg)
     IN  /\ a_mcg' = r.g
         /\ a_emitted' = Append(a_emitted, r.config)
  /\ a_lastop' = "next"
  /\ a_hist' = [a_hist EXCEPT
                  !.protocol = @ /\ a_lastop = "poll" /\ a_poll = FALSE,
                  !.fb = "none",
                  !.prevFb = a_hist.fb]
  /\ UNCHANGED <<a_cfg, a_poll, perfVars, runVars, callVars>>

AutoSetLastResults ==
  \E ms \in AutoFeedbacks :
    /\ a_mcg' = McgSetLastResults(a_mcg, ms)
    /\ a_lastop' = "set"
    /\ a_hist' = [a_hist EXCEPT
                    !.noNone = @ /\ ~HasNone(ms),
                    !.fb = IF HasNone(ms) THEN "hasNone" ELSE "clean"]
    /\ UNCHANGED <<a_cfg, a_emitted, a_poll, perfVars, runVars, callVars>>

AutoNext == AutoIsDone \/ AutoNextConfig \/ AutoSetLastResults


(***************************************************************************)
(* PerfAnalyzerConfigGenerator                                             *)
(*                                                                         *)
(* p : the generator object                                                *)
(*     index    _curr_config_index                                         *)
(*     last     _last_results                                              *)
(*     all      _all_results                                               *)
(*     configs  _configs, built by the constructor                         *)
(* A call that can raise returns "True", "False" or the exception's name.  *)
(***************************************************************************)
\* THROUGHPUT_GAIN = 0.05, as the number of hundredths
ThroughputGainPercent == 5

\* the element of the initial _last_results = ["valid"]
ValidMarker == [tp |-> 0 - 2, call |-> 0]

\* the CLI configuration with the given sweep options and the defaults of
\* the other options
Cli(batch_sizes, concurrency, disable, max_concurrency) ==
  [batch_sizes |-> batch_sizes, concurrency |-> concurrency,
   run_config_search_disable |-> disable,
   run_config_search_max_concurrency |-> max_concurrency,
   client_protocol |-> "grpc", triton_launch_mode |-> "local",
   triton_install_path |-> "/opt/tritonserver",
   output_model_repository_path |-> "output_model_repository",
   triton_http_endpoint |-> "localhost:8000",
   triton_grpc_endpoint |-> "localhost:8001"]

RECURSIVE Log2Ladder(_, _)
Log2Ladder(v, max) == IF v > max THEN <<>> ELSE <<v>> \o Log2Ladder(2 * v, max)

\* utils.generate_log2_list(value): 1, 2, 4, ... up to value
GenerateLog2List(value) == Log2Ladder(1, value)

CreateConcurrencyListMutDisableFirst(cli) ==
  IF cli.run_config_search_disable THEN <<1>>
  ELSE IF cli.concurrency # <<>> THEN cli.concurrency
  ELSE GenerateLog2List(cli.run_config_search_max_concurrency)

CreateConcurrencyList(cli) ==
  IF cli.concurrency # <<>> THEN cli.concurrency
  ELSE IF cli.run_config_search_disable THEN <<1>>
  ELSE GenerateLog2List(cli.run_config_search_max_concurrency)

\* config_defaults.DEFAULT_MEASUREMENT_MODE
DEFAULT_MEASUREMENT_MODE == "count_windows"

CreatePerfConfigParamsMutOrder(cli, model_name, concurrency) ==
  << <<"model-name", <<model_name>>>>,
     <<"concurrency-range", concurrency>>,
     <<"batch-size", cli.batch_sizes>>,
     <<"measurement-mode", <<DEFAULT_MEASUREMENT_MODE>>>> >>
  \o (IF cli.triton_launch_mode = "c_api"
      THEN << <<"service-kind", <<"triton_c_api">>>>,
              <<"triton-server-directory", <<cli.triton_install_path>>>>,
              <<"model-repository", <<cli.output_model_repository_path>>>> >>
      ELSE << <<"protocol", <<cli.client_protocol>>>>,
              <<"url", <<IF cli.client_protocol = "http"
                         THEN cli.triton_http_endpoint
                         ELSE cli.triton_grpc_endpoint>>>> >>)

CreatePerfConfigParamsMutBothTransports(cli, model_name, concurrency) ==
  << <<"model-name", <<model_name>>>>,
     <<"batch-size", cli.batch_sizes>>,
     <<"concurrency-range", concurrency>>,
     <<"measurement-mode", <<DEFAULT_MEASUREMENT_MODE>>>> >>
  \o (IF cli.triton_launch_mode = "c_api"
      THEN << <<"service-kind", <<"triton_c_api">>>>,
              <<"triton-server-directory", <<cli.triton_install_path>>>>,
              <<"model-repository", <<cli.output_model_repository_path>>>> >>
      ELSE <<>>)
  \o << <<"protocol", <<cli.client_protocol>>>>,
        <<"url", <<cli.triton_grpc_endpoint>>>> >>

\* _create_perf_config_params: the dict as the sequence of its (key, list of
\* values) items in insertion order
CreatePerfConfigParams(cli, model_name, concurrency) ==
  << <<"model-name", <<model_name>>>>,
     <<"batch-size", cli.batch_sizes>>,
     <<"concurrency-range", concurrency>>,
     <<"measurement-mode", <<DEFAULT_MEASUREMENT_MODE>>>> >>
  \o (IF cli.triton_launch_mode = "c_api"
      THEN << <<"service-kind", <<"triton_c_api">>>>,
              <<"triton-server-directory", <<cli.triton_install_path>>>>,
              <<"model-repository", <<cli.output_model_repository_path>>>> >>
      ELSE << <<"protocol", <<cli.client_protocol>>>>,
              <<"url", <<IF cli.client_protocol = "http"
                         THEN cli.triton_http_endpoint
                         ELSE cli.triton_grpc_endpoint>>>> >>)

\* the combinations rest, each extended by key = value
WithKey(key, value, rest) ==
  [k \in DOMAIN rest |-> (key :> value) @@ rest[k]]

\* WithKey for each of the values in turn, one after the other
RECURSIVE ForEachValue(_, _, _)
ForEachValue(key, values, rest) ==
  IF values = <<>> THEN <<>>
  ELSE WithKey(key, Head(values), rest) \o ForEachValue(key, Tail(values), rest)

\* utils.generate_parameter_combinations: one dict per point of the product
\* of the value lists, the first key varying slowest and the last fastest
RECURSIVE GenerateParameterCombinations(_)
GenerateParameterCombinations(params) ==
  IF params = <<>> THEN << [k \in {} |-> 0] >>
  ELSE ForEachValue(Head(params)[1], Head(params)[2],
                    GenerateParameterCombinations(Tail(params)))

\* no perf_analyzer_flags given for the model
NoFlags == [k \in {} |-> 0]

\* PerfAnalyzerConfig.update_config(params): each key of params is set
UpdateConfig(config, params) == params @@ config

GeneratePerfConfigsMutFlagsFirst(cli, model_name, flags, concurrency) ==
  LET combos == GenerateParameterCombinations(
                  CreatePerfConfigParams(cli, model_name, concurrency))
  IN  [k \in DOMAIN combos |->
         UpdateConfig(UpdateConfig([x \in {} |-> 0], flags), combos[k])]

\* _generate_perf_configs: one PerfAnalyzerConfig per combination, in order,
\* updated with the combination and then with the user's flags
GeneratePerfConfigs(cli, model_name, flags, concurrency) ==
  LET combos == GenerateParameterCombinations(
                  CreatePerfConfigParams(cli, model_name, concurrency))
  IN  [k \in DOMAIN combos |->
         UpdateConfig(UpdateConfig([x \in {} |-> 0], combos[k]), flags)]

PacgInit(cli, model_name, flags) ==
  [index |-> 0, last |-> <<ValidMarker>>, all |-> <<>>,
   configs |-> GeneratePerfConfigs(cli, model_name, flags,
                                   CreateConcurrencyList(cli))]

AllConfigsReturned(p) == Len(p.configs) = p.index

PacgLastResultsErroneousMutNever(p) == FALSE

PacgLastResultsErroneous(p) == p.last = <<>>

CalculateThroughputGainMutZeroIsNoGain(p, index) ==
  LET before == p.all[Len(p.all) - index]
      after  == p.all[Len(p.all) - index + 1]
  IN  IF IsNone(before) \/ IsNone(after) THEN [err |-> "AttributeError", num |-> 0, den |-> 1]
      ELSE IF before.tp = 0 THEN [err |-> "ok", num |-> 0, den |-> 1]
      ELSE [err |-> "ok", num |-> after.tp - before.tp, den |-> before.tp]

\* _calculate_throughput_gain(index): the gain as the fraction num / den,
\* or the exception raised while computing it
CalculateThroughputGain(p, index) ==
  LET before == p.all[Len(p.all) - index]
      after  == p.all[Len(p.all) - index + 1]
  IN  IF IsNone(before) \/ IsNone(after) THEN [err |-> "AttributeError", num |-> 0, den |-> 1]
      ELSE IF before.tp = 0 THEN [err |-> "ZeroDivisionError", num |-> 0, den |-> 1]
      ELSE [err |-> "ok", num |-> after.tp - before.tp, den |-> before.tp]

GainAboveThresholdMutGeq(gain) ==
  100 * gain.num * gain.den >= ThroughputGainPercent * gain.den * gain.den

\* gain > THROUGHPUT_GAIN, for a gain that was computed
GainAboveThreshold(gain) ==
  100 * gain.num * gain.den > ThroughputGainPercent * gain.den * gain.den

\* gain(i) > T or <rest>, evaluated left to right
GainOr(gain, rest) ==
  IF gain.err # "ok" THEN gain.err
  ELSE IF GainAboveThreshold(gain) THEN "True"
  ELSE rest

ThroughputGainValid(p) ==
  IF Len(p.all) < 4 THEN "True"
  ELSE GainOr(CalculateThroughputGain(p, 1),
       GainOr(CalculateThroughputGain(p, 2),
       GainOr(CalculateThroughputGain(p, 3), "False")))

PacgIsDoneMutNoAllReturned(p) ==
  IF PacgLastResultsErroneous(p) THEN "True"
  ELSE LET valid == ThroughputGainValid(p)
       IN  IF valid = "True" THEN "False"
           ELSE IF valid = "False" THEN "True"
           ELSE valid

PacgIsDoneMutNoEmptyCheck(p) ==
  IF AllConfigsReturned(p) THEN "True"
  ELSE LET valid == ThroughputGainValid(p)
       IN  IF valid = "True" THEN "False"
           ELSE IF valid = "False" THEN "True"
           ELSE valid

PacgIsDone(p) ==
  IF AllConfigsReturned(p) \/ PacgLastResultsErroneous(p) THEN "True"
  ELSE LET valid == ThroughputGainValid(p)
       IN  IF valid = "True" THEN "False"
           ELSE IF valid = "False" THEN "True"
           ELSE valid

\* next_config(): the config returned, or IndexError past the end
PacgNextConfig(p) ==
  IF p.index < Len(p.configs)
  THEN [err |-> "ok", config |-> p.configs[p.index + 1],
        p |-> [p EXCEPT !.index = p.index + 1]]
  ELSE [err |-> "IndexError", config |-> [batch_size |-> 0, concurrency_range |-> 0],
        p |-> p]

PacgSetLastResultsMutSkip(p, measurement) ==
  [p EXCEPT !.last = measurement, !.all = p.all \o measurement,
            !.index = IF p.index < Len(p.configs) THEN p.index + 1 ELSE p.index]

PacgSetLastResults(p, measurement) ==
  [p EXCEPT !.last = measurement, !.all = p.all \o measurement]

(***************************************************************************)
(* Specification SpecPerf: one load generator and its driver.  The driver  *)
(* calls next_config() and set_last_results() in any order and polls       *)
(* is_done() after each call.                                              *)
(***************************************************************************)
\* number of measurements the driver reports at most
MaxHistory == 5
\* longest feedback list the driver reports
MaxBatch == 2


PerfClis ==
  { Cli(<<1>>, <<>>, FALSE, 2),
    Cli(<<1>>, <<>>, TRUE, 2) }

\* perf_throughput values: 10, 10.5, 11, 11.1, 11.15, 11.17 in hundredths,
\* or a few values around a throughput of 0
ThroughputSets == { {1000, 1050, 1100, 1110, 1115, 1117}, {0, 20, 21, 40} }

RECURSIVE SeqsUpTo(_, _)
SeqsUpTo(S, n) ==
  IF n = 0 THEN {<<>>}
  ELSE LET shorter == SeqsUpTo(S, n - 1)
       IN  shorter \cup {Append(q, x) : q \in shorter, x \in S}

PerfFeedbacks(tps) == SeqsUpTo({Meas(t) : t \in tps}, MaxBatch)

PerfInit ==
  /\ p_cli \in PerfClis
  /\ p_flags = NoFlags
  /\ p_tps \in ThroughputSets
  /\ p_pacg = PacgInit(p_cli, BaseModelName, p_flags)
  /\ p_emitted = <<>>
  /\ p_poll = PacgIsDone(p_pacg)
  /\ p_err = "ok"
  /\ p_hist = [protocol |-> TRUE, setWhileDone |-> FALSE]

PerfNextConfig ==
  /\ p_err = "ok"
  /\ LET r == PacgNextConfig(p_pacg)
     IN  /\ p_pacg' = r.p
         /\ p_err' = r.err
         /\ p_emitted' = IF r.err = "ok" THEN Append(p_emitted, r.config) ELSE p_emitted
         /\ p_poll' = PacgIsDone(r.p)
  /\ p_hist' = [p_hist EXCEPT !.protocol = @ /\ p_poll = "False",
                             !.setWhileDone = FALSE]
  /\ UNCHANGED <<p_cli, p_flags, p_tps, autoVars, runVars,
               callVars>>

PerfSetLastResults ==
  /\ p_err = "ok"
  /\ \E ms \in PerfFeedbacks(p_tps) :
       /\ Len(p_pacg.all) + Len(ms) <= MaxHistory
       /\ p_pacg' = PacgSetLastResults(p_pacg, ms)
       /\ p_poll' = PacgIsDone(PacgSetLastResults(p_pacg, ms))
  /\ p_hist' = [p_hist EXCEPT !.setWhileDone = (p_poll = "True")]
  /\ UNCHANGED <<p_cli, p_flags, p_tps, p_emitted, p_err, autoVars, runVars,
               callVars>>

PerfNext == PerfNextConfig \/ PerfSetLastResults

(***************************************************************************)
(* Specification SpecLoad: the load generator built from a range of CLI    *)
(* configurations and perf_analyzer_flags, and drained by the loop         *)
(*    while not pacg.is_done(): pacg.next_config()                         *)
(***************************************************************************)
\* largest run_config_search_max_concurrency drawn
MaxConcurrency == 16

LoadBatchSizes == { <<1>>, <<1, 2, 4>>, <<4, 1>> }

LoadConcurrencies == { <<>>, <<1, 2, 3, 4>>, <<3, 1>> }

\* triton_launch_mode and client_protocol values
LoadLaunchModes == {"local", "c_api", "remote"}

LoadClientProtocols == {"grpc", "http"}

LoadClis ==
  { [Cli(b, c, d, mc) EXCEPT !.triton_launch_mode = m, !.client_protocol = pr] :
      b \in LoadBatchSizes, c \in LoadConcurrencies, d \in BOOLEAN,
      mc \in 1..MaxConcurrency, m \in LoadLaunchModes,
      pr \in LoadClientProtocols }

\* perf_analyzer_flags: none, a key the sweep does not set, a key the sweep
\* sets, or both kinds
LoadFlags ==
  { NoFlags,
    ("percentile" :> 96),
    ("concurrency-range" :> 7),
    ("batch-size" :> 8) @@ ("percentile" :> 96) }

LoadInit ==
  /\ p_cli \in LoadClis
  /\ p_flags \in LoadFlags
  /\ p_tps = {}
  /\ p_pacg = PacgInit(p_cli, BaseModelName, p_flags)
  /\ p_emitted = <<>>
  /\ p_poll = PacgIsDone(p_pacg)
  /\ p_err = "ok"
  /\ p_hist = [protocol |-> TRUE, setWhileDone |-> FALSE]

LoadNextConfig == p_poll = "False" /\ PerfNextConfig

LoadNext == LoadNextConfig

(***************************************************************************)
(* ManualModelConfigGenerator and ConfigGeneratorFactory, modelled from    *)
(* the specification (sections 4.3, 4.3.1 and 4.3.2): their sources are    *)
(* not part of the sources at hand.  The manual generator runs under the   *)
(* protocol of BaseModelConfigGenerator (is_done, next_config,             *)
(* set_last_results) and builds its configs with the methods of that       *)
(* class.                                                                  *)
(*                                                                         *)
(* c : the configuration as for the automatic generator, and in addition   *)
(*     triton_launch_mode, run_config_search_disable and the model's       *)
(*     model_config_parameters                                             *)
(* g : the generator object: live, last, base, name_index and pc as for    *)
(*     the automatic generator, and                                        *)
(*     index   the number of overlays stepped over                         *)
(*     combos  the overlays to emit, in order                              *)
(***************************************************************************)

\* model_config_parameters is a nested structure: a scalar, a list of
\* candidate values, a dict (its items in insertion order) or a list of dicts
ParamScalar(value) == [t |-> "scalar", v |-> value]

ParamList(values) == [t |-> "list", v |-> values]

ParamMap(items) == [t |-> "map", v |-> items]

ParamMaps(elems) == [t |-> "maps", v |-> elems]

\* no model_config_parameters given for the model
NoParameters == ParamMap(<<>>)

RECURSIVE NodeValues(_), ItemsValues(_), ElemsValues(_)
\* the concrete values a node of the structure stands for, in order: a scalar
\* is held constant, a list gives its elements, a dict the product over its
\* keys and a list of dicts the product over its elements
NodeValues(node) ==
  IF node.t = "scalar" THEN <<node.v>>
  ELSE IF node.t = "list" THEN node.v
  ELSE IF node.t = "map"
  THEN GenerateParameterCombinations(ItemsValues(node.v))
  ELSE ElemsValues(node.v)

\* the flat view of a dict: each key with the list of its concrete values
ItemsValues(items) ==
  [i \in DOMAIN items |-> <<items[i][1], NodeValues(items[i][2])>>]

\* the lists that take one concrete value per element, first element slowest
ElemsValues(elems) ==
  IF elems = <<>> THEN << <<>> >>
  ELSE LET heads == NodeValues(Head(elems))
           rest  == ElemsValues(Tail(elems))
       IN  Flatten([i \in DOMAIN heads |->
                      [j \in DOMAIN rest |-> <<heads[i]>> \o rest[j]]])

ManualParamCombosMutDefaultFirst(c) ==
  <<DEFAULT_PARAM_COMBO>> \o (IF c.model_config_parameters = NoParameters
                              THEN <<>>
                              ELSE NodeValues(c.model_config_parameters))

\* the overlays of the manual variant: one per point of the product, then
\* the default overlay
ManualParamCombos(c) ==
  (IF c.model_config_parameters = NoParameters
   THEN <<>>
   ELSE NodeValues(c.model_config_parameters)) \o <<DEFAULT_PARAM_COMBO>>

ManualOverlaysMutIgnoreRemote(c) == ManualParamCombos(c)

\* remote launch mode: the one candidate is the empty overlay
ManualOverlays(c) ==
  IF c.triton_launch_mode = "remote"
  THEN <<DEFAULT_PARAM_COMBO>>
  ELSE ManualParamCombos(c)

MmcgInit(c, model_name) ==
  [live |-> FALSE, last |-> <<>>, base |-> model_name, name_index |-> 0,
   pc |-> "new", index |-> 0, combos |-> ManualOverlays(c)]

\* the generator is exhausted when it stands at its last overlay
MmcgDoneWalking(g) == g.index + 1 >= Len(g.combos)

MmcgStep(g) == [g EXCEPT !.index = g.index + 1]

\* client.get_model_config(name, retries) of the tests' client
ClientGetModelConfig(model_name) == ("name" :> <<model_name>>)

\* the config is the one the server reports for the model; load_model and
\* unload_model leave the set of loaded models as it was
MakeRemoteModelConfig(g) ==
  [config |-> [name |-> <<g.base>>, combo |-> DEFAULT_PARAM_COMBO,
               dict |-> ClientGetModelConfig(g.base)],
   g |-> g]

MmcgGetNextModelConfig(c, g) ==
  IF c.triton_launch_mode = "remote"
  THEN MakeRemoteModelConfig(g)
  ELSE MakeDirectModeModelConfig(c, g, g.combos[g.index + 1])

MmcgIsDone(g) == g.live /\ MmcgDoneWalking(g)

\* one next() on the coroutine returned by next_config()
MmcgNextConfig(c, g) ==
  IF g.pc = "new"
  THEN MmcgGetNextModelConfig(c, [g EXCEPT !.live = TRUE, !.pc = "yield"])
  ELSE MmcgGetNextModelConfig(c, MmcgStep(g))

UsesManualMutIgnoreDisable(c) ==
  \/ c.triton_launch_mode = "remote"
  \/ c.model_config_parameters # NoParameters

\* the factory builds the manual variant in remote mode, when the search is
\* disabled and when model_config_parameters are given
UsesManual(c) ==
  \/ c.triton_launch_mode = "remote"
  \/ c.run_config_search_disable
  \/ c.model_config_parameters # NoParameters

CreateModelConfigGenerator(c, model_name) ==
  IF UsesManual(c) THEN MmcgInit(c, model_name) ELSE McgInit(model_name)

(***************************************************************************)
(* Specification SpecManual: the generator the factory builds and the      *)
(* driver of the tests,                                                    *)
(*    while not is_done(): next(); set_last_results(...)                   *)
(* which may poll and record results more often than that.                 *)
(***************************************************************************)

\* model_config_parameters of test_direct_yes_params_specified
TestParameters ==
  ParamMap(<< <<"max_batch_size", ParamList(<<1, 4, 16>>)>>,
              <<"instance_group",
                ParamMaps(<< ParamMap(<< <<"kind", ParamScalar("KIND_GPU")>>,
                                         <<"count", ParamList(<<1, 2>>)>> >>) >>)>> >>)

ManualParameters ==
  { NoParameters,
    TestParameters,
    ParamMap(<< <<"max_batch_size", ParamList(<<1, 2>>)>> >>) }

ManualConfigs ==
  [min_inst : {1}, max_inst : {2}, min_bs : {1}, max_bs : {2},
   cpu_only : {FALSE}, base_config : {DefaultBaseConfig},
   triton_launch_mode : {"local", "remote"},
   run_config_search_disable : BOOLEAN,
   model_config_parameters : ManualParameters]

ManualInit ==
  /\ a_cfg \in ManualConfigs
  /\ a_mcg = CreateModelConfigGenerator(a_cfg, BaseModelName)
  /\ a_emitted = <<>>
  /\ a_poll = FALSE
  /\ a_lastop = "init"
  /\ a_hist = [protocol |-> TRUE, noNone |-> TRUE,
               fb |-> "none", prevFb |-> "none"]

ManualIsDone ==
  /\ a_poll' = IF UsesManual(a_cfg)
               THEN MmcgIsDone(a_mcg)
               ELSE McgIsDone(a_cfg, a_mcg)
  /\ a_lastop' = "poll"
  /\ UNCHANGED <<a_cfg, a_mcg, a_emitted, a_hist, perfVars, runVars, callVars>>

ManualNextConfig ==
  /\ a_lastop = "poll"
  /\ a_poll = FALSE
  /\ Len(a_emitted) < MaxEmit
  /\ LET r == IF UsesManual(a_cfg)
              THEN MmcgNextConfig(a_cfg, a_mcg)
              ELSE McgNextConfig(a_cfg, a_mcg)
     IN  /\ a_mcg' = r.g
         /\ a_emitted' = Append(a_emitted, r.config)
  /\ a_lastop' = "next"
  /\ a_hist' = [a_hist EXCEPT !.fb = "none", !.prevFb = a_hist.fb]
  /\ UNCHANGED <<a_cfg, a_poll, perfVars, runVars, callVars>>

ManualSetLastResults ==
  \E ms \in AutoFeedbacks :
    /\ a_mcg' = McgSetLastResults(a_mcg, ms)
    /\ a_lastop' = "set"
    /\ a_hist' = [a_hist EXCEPT
                    !.noNone = @ /\ ~HasNone(ms),
                    !.fb = IF HasNone(ms) THEN "hasNone" ELSE "clean"]
    /\ UNCHANGED <<a_cfg, a_emitted, a_poll, perfVars, runVars, callVars>>

ManualNext == ManualIsDone \/ ManualNextConfig \/ ManualSetLastResults

(***************************************************************************)
(* ModelRunConfigGenerator, modelled from the specification (section 4.4): *)
(* its source is not part of the sources at hand.  It composes one serving *)
(* generator with a fresh load generator per serving configuration.        *)
(*                                                                         *)
(* rc : the configuration, [auto |-> c, cli |-> cli]                       *)
(* m  : the generator object                                               *)
(*     mcg, pacg  the serving and the load generator                       *)
(*     model      the model it was built for                               *)
(*     mc         the serving configuration being swept                    *)
(*     pc         position of the coroutine next_config(): "new", "yield"  *)
(*                or "stop"; "none" stands for no generator (None)         *)
(***************************************************************************)
NoModelConfig == [name |-> <<>>, combo |-> DEFAULT_PARAM_COMBO]

NoPerfConfig == [batch_size |-> 0, concurrency_range |-> 0]

NoGenerator == [pc |-> "none"]

MrcgInit(rc, model) ==
  [mcg |-> McgInit(model), pacg |-> PacgInit(rc.cli, model, NoFlags),
   model |-> model,
   mc |-> NoModelConfig, pc |-> "new"]

\* done when the load sweep of the current serving configuration is done and
\* the serving generator is done
MrcgIsDone(rc, m) ==
  LET pd == PacgIsDone(m.pacg)
  IN  IF pd = "True"
      THEN IF McgIsDone(rc.auto, m.mcg) THEN "True" ELSE "False"
      ELSE pd

\* the next serving configuration with a fresh load generator and its first
\* load configuration (every load generator has at least one candidate)
MrcgPullModelConfig(rc, m) ==
  LET r == McgNextConfig(rc.auto, m.mcg)
      q == PacgNextConfig(PacgInit(rc.cli, m.model, NoFlags))
  IN  [err    |-> q.err,
       config |-> [model |-> m.model, mc |-> r.config, pa |-> q.config],
       m      |-> [m EXCEPT !.mcg = r.g, !.pacg = q.p, !.mc = r.config,
                            !.pc = "yield"]]

MrcgStop(m, err) ==
  [err |-> err,
   config |-> [model |-> m.model, mc |-> NoModelConfig, pa |-> NoPerfConfig],
   m |-> [m EXCEPT !.pc = IF err = "StopIteration" THEN "stop" ELSE @]]

\* one next() on the coroutine: for each serving configuration, drain a
\* fresh load generator, yielding the pair for each load configuration
MrcgNextConfig(rc, m) ==
  IF m.pc = "stop" THEN MrcgStop(m, "StopIteration")
  ELSE IF m.pc = "new"
  THEN IF McgIsDone(rc.auto, m.mcg)
       THEN MrcgStop(m, "StopIteration")
       ELSE MrcgPullModelConfig(rc, m)
  ELSE LET pd == PacgIsDone(m.pacg)
       IN  IF pd = "False"
           THEN LET q == PacgNextConfig(m.pacg)
                IN  [err    |-> q.err,
                     config |-> [model |-> m.model, mc |-> m.mc, pa |-> q.config],
                     m      |-> [m EXCEPT !.pacg = q.p]]
           ELSE IF pd = "True"
           THEN IF McgIsDone(rc.auto, m.mcg)
                THEN MrcgStop(m, "StopIteration")
                ELSE MrcgPullModelConfig(rc, m)
           ELSE MrcgStop(m, pd)

\* results go to the load generator; once it is done the batch also goes to
\* the serving generator, to drive its next step
MrcgSetLastResults(rc, m, measurements) ==
  LET p2 == PacgSetLastResults(m.pacg, measurements)
      pd == PacgIsDone(p2)
  IN  IF pd = "True"
      THEN [err |-> "ok",
            m |-> [m EXCEPT !.pacg = p2,
                            !.mcg = McgSetLastResults(m.mcg, <<measurements>>)]]
      ELSE [err |-> IF pd = "False" THEN "ok" ELSE pd,
            m |-> [m EXCEPT !.pacg = p2]]

(***************************************************************************)
(* RunConfigGenerator.  Level i of the model is index i - 1 of the code.   *)
(* _curr_results is built as [[]] * num_models: its entries all refer to   *)
(* one list, so the model keeps the identity of the list each entry refers *)
(* to (0: the list of the constructor, i: the list assigned to level i by  *)
(* _send_results_to_appropriate_generators) apart from the lists' contents.*)
(***************************************************************************)
NoEnv == <<>>

DetermineTritonServerEnvMutNoCheck(models) ==
  [err |-> "ok", env |-> models[1].triton_server_environment]

\* _determine_triton_server_env: the environment of the first model, or the
\* exception raised when another model's environment differs from it
DetermineTritonServerEnv(models) ==
  LET triton_env == models[1].triton_server_environment
  IN  IF \E i \in DOMAIN models : models[i].triton_server_environment # triton_env
      THEN [err |-> "TritonModelAnalyzerException", env |-> NoEnv]
      ELSE [err |-> "ok", env |-> triton_env]

\* the object after __init__(config, models, client); err is the exception
\* the constructor raised, if any
RunInitState(models) ==
  LET n == Len(models)
      e == DetermineTritonServerEnv(models)
  IN  [gens |-> [i \in 1..n |-> NoGenerator],
       cur  |-> [i \in 1..n |-> [model |-> i, mc |-> NoModelConfig, pa |-> NoPerfConfig]],
       ref  |-> [i \in 1..n |-> 0],
       heap |-> [l \in 0..n |-> <<>>],
       pc   |-> "new",
       out  |-> <<>>,
       err  |-> e.err,
       log  |-> [i \in 1..n |-> <<>>],
       triton_env |-> e.env]

AllDoneMutFirstOnly(results) == results[1]

\* the first exception among the results, else whether all are "True"
AllDone(results) ==
  IF \E i \in DOMAIN results : results[i] \notin {"True", "False"}
  THEN LET first == CHOOSE i \in DOMAIN results :
                      /\ results[i] \notin {"True", "False"}
                      /\ \A j \in 1..(i - 1) : results[j] \in {"True", "False"}
       IN  results[first]
  ELSE IF \A i \in DOMAIN results : results[i] = "True" THEN "True" ELSE "False"

RunIsDoneMutNoGeneratorCheck(rc, n, st) ==
  IF \E i \in 1..n : st.gens[i].pc = "none" THEN "AttributeError"
  ELSE AllDone([i \in 1..n |-> MrcgIsDone(rc, st.gens[i])])

RunIsDone(rc, n, st) ==
  IF st.gens[1].pc = "none" THEN "False"
  ELSE IF \E i \in 1..n : st.gens[i].pc = "none" THEN "AttributeError"
  ELSE AllDone([i \in 1..n |-> MrcgIsDone(rc, st.gens[i])])

MakeRunConfigMutReversed(n, st) ==
  [triton_env |-> st.triton_env,
   model_run_configs |-> [i \in 1..n |-> st.cur[n + 1 - i]]]

\* the RunConfig: the environment and one ModelRunConfig per model
MakeRunConfig(n, st) ==
  [triton_env |-> st.triton_env,
   model_run_configs |-> [i \in 1..n |-> st.cur[i]]]

FreshLevelMutReuse(rc, st, index) ==
  IF st.gens[index].pc = "none"
  THEN [st EXCEPT !.gens[index] = MrcgInit(rc, index)]
  ELSE st

\* the first lines of _generate_subset(index): a new ModelRunConfigGenerator
\* for the model at index becomes the current generator of that level
FreshLevel(rc, st, index) == [st EXCEPT !.gens[index] = MrcgInit(rc, index)]

\* an exception leaving next(): a StopIteration raised inside a generator
\* surfaces as RuntimeError
Raised(st, err) ==
  [st EXCEPT !.err = IF err = "StopIteration" THEN "RuntimeError" ELSE err,
             !.out = <<>>]

RECURSIVE SubsetLoopMutNoDoneCheck(_, _, _, _)
SubsetLoopMutNoDoneCheck(rc, n, st, index) ==
  LET r == MrcgNextConfig(rc, st.gens[index])
  IN  IF r.err # "ok" THEN Raised(st, r.err)
      ELSE LET st2 == [st EXCEPT !.gens[index] = r.m, !.cur[index] = r.config]
           IN  IF index = n
               THEN [st2 EXCEPT !.pc = "yield", !.out = <<MakeRunConfig(n, st2)>>]
               ELSE SubsetLoopMutNoDoneCheck(rc, n, FreshLevel(rc, st2, index + 1),
                                             index + 1)

\* _generate_subset(index), from its while loop on: run until the next yield
\* of the innermost level or until the outermost loop ends
RECURSIVE SubsetLoop(_, _, _, _)
SubsetLoop(rc, n, st, index) ==
  LET done == MrcgIsDone(rc, st.gens[index])
  IN  IF done = "True"
      THEN IF index = 1
           THEN [st EXCEPT !.pc = "stop", !.out = <<>>]
           ELSE SubsetLoop(rc, n, st, index - 1)
      ELSE IF done = "False"
      THEN LET r == MrcgNextConfig(rc, st.gens[index])
           IN  IF r.err # "ok" THEN Raised(st, r.err)
               ELSE LET st2 == [st EXCEPT !.gens[index] = r.m,
                                          !.cur[index] = r.config]
                    IN  IF index = n
                        THEN [st2 EXCEPT !.pc = "yield",
                                         !.out = <<MakeRunConfig(n, st2)>>]
                        ELSE SubsetLoop(rc, n, FreshLevel(rc, st2, index + 1),
                                        index + 1)
      ELSE Raised(st, done)

\* _generate_subset(index) from its first line
GenerateSubset(rc, n, st, index) ==
  SubsetLoop(rc, n, FreshLevel(rc, st, index), index)

\* one next() on the coroutine returned by next_config()
RunNextConfig(rc, n, st) ==
  IF st.pc = "new" THEN GenerateSubset(rc, n, st, 1)
  ELSE IF st.pc = "yield" THEN SubsetLoop(rc, n, st, n)
  ELSE [st EXCEPT !.out = <<>>]

RECURSIVE UpdateResultsForAllGenerators(_, _, _, _)
UpdateResultsForAllGenerators(n, st, measurements, index) ==
  IF index > n THEN st
  ELSE UpdateResultsForAllGenerators(n,
         [st EXCEPT !.heap[st.ref[index]] = @ \o measurements],
         measurements, index + 1)

RECURSIVE SendResultsMutNoBreak(_, _, _, _)
SendResultsMutNoBreak(rc, n, st, index) ==
  IF st.gens[index].pc = "none" THEN [st EXCEPT !.err = "AttributeError"]
  ELSE LET batch == st.heap[st.ref[index]]
           r     == MrcgSetLastResults(rc, st.gens[index], batch)
           st2   == [st EXCEPT !.gens[index] = r.m,
                              !.log[index] = Append(@, batch),
                              !.ref[index] = index,
                              !.heap[index] = <<>>]
       IN  IF r.err # "ok" THEN [st2 EXCEPT !.err = r.err]
           ELSE IF index = 1 THEN st2
           ELSE SendResultsMutNoBreak(rc, n, st2, index - 1)

\* _send_results_to_appropriate_generators, from level index down to 1
RECURSIVE SendResults(_, _, _, _)
SendResults(rc, n, st, index) ==
  IF st.gens[index].pc = "none" THEN [st EXCEPT !.err = "AttributeError"]
  ELSE LET batch == st.heap[st.ref[index]]
           r     == MrcgSetLastResults(rc, st.gens[index], batch)
           st2   == [st EXCEPT !.gens[index] = r.m,
                              !.log[index] = Append(@, batch),
                              !.ref[index] = index,
                              !.heap[index] = <<>>]
           done  == MrcgIsDone(rc, r.m)
       IN  IF r.err # "ok" THEN [st2 EXCEPT !.err = r.err]
           ELSE IF done = "False" THEN st2
           ELSE IF done = "True"
           THEN IF index = 1 THEN st2 ELSE SendResults(rc, n, st2, index - 1)
           ELSE [st2 EXCEPT !.err = done]

RunSetLastResults(rc, n, st, measurements) ==
  SendResults(rc, n, UpdateResultsForAllGenerators(n, st, measurements, 1), n)

(***************************************************************************)
(* Specification SpecRun: the run generator for 1..MaxModels models and    *)
(* its driver, which calls next() and set_last_results() in any order and  *)
(* polls is_done() after each call.                                        *)
(***************************************************************************)
\* largest number of models
MaxModels == 2
\* number of calls the driver makes at most
MaxRunSteps == 8

RunConfigs ==
  { [auto |-> [min_inst |-> 1, max_inst |-> 1, min_bs |-> 1, max_bs |-> 1,
               cpu_only |-> FALSE,
               base_config |-> DefaultBaseConfig],
     cli  |-> Cli(<<1>>, <<>>, FALSE, 2)],
    [auto |-> [min_inst |-> 1, max_inst |-> 1, min_bs |-> 1, max_bs |-> 2,
               cpu_only |-> FALSE,
               base_config |-> DefaultBaseConfig],
     cli  |-> Cli(<<1>>, <<1>>, FALSE, 2)],
    [auto |-> [min_inst |-> 1, max_inst |-> 1, min_bs |-> 1, max_bs |-> 1,
               cpu_only |-> FALSE,
               base_config |-> DefaultBaseConfig],
     cli  |-> Cli(<<1>>, <<1>>, FALSE, 2)] }

\* triton_server_environment values: no variable set, or one variable set
TritonEnvs == { <<>>, << <<"CUDA_VISIBLE_DEVICES", "0">> >> }

\* the lists of n models the generator may be built for
ModelLists(n) == [1..n -> [triton_server_environment : TritonEnvs]]

\* the measurement lists the driver may report in its call number k: the
\* load tool produced no measurement, one measurement, or None
RunFeedbacks(k) ==
  { <<>>, <<[tp |-> 10, call |-> k]>>, <<[tp |-> NoneTp, call |-> k]>> }

RunInit ==
  /\ r_cfg \in RunConfigs
  /\ r_n \in 1..MaxModels
  /\ r_models \in ModelLists(r_n)
  /\ r_st = RunInitState(r_models)
  /\ r_emitted = <<>>
  /\ r_poll = RunIsDone(r_cfg, r_n, r_st)
  /\ r_calls = 0
  /\ r_steps = 0
  /\ r_hist = [doneSeen |-> FALSE, emittedAfterDone |-> FALSE,
               emittedWhileDone |-> FALSE, earlyStop |-> FALSE]

\* the generator m would end a sweep before its candidates are used up: its
\* load generator is done with candidates left, or its serving generator
\* holds a None result while the batch size could still be doubled
StoppedEarly(rc, m) ==
  /\ m.pc # "none"
  /\ \/ PacgIsDone(m.pacg) # "False" /\ ~AllConfigsReturned(m.pacg)
     \/ McgLastResultsErroneous(m.mcg) /\ ~MaxBatchSizeLimitReached(rc.auto, m.mcg)

RunPolled(st, emits) ==
  LET poll == RunIsDone(r_cfg, r_n, st)
  IN  /\ r_poll' = poll
      /\ r_hist' = [doneSeen |-> r_hist.doneSeen \/ poll = "True",
                    emittedAfterDone |-> r_hist.emittedAfterDone
                                           \/ (emits /\ r_hist.doneSeen),
                    emittedWhileDone |-> r_hist.emittedWhileDone
                                           \/ (emits /\ r_poll = "True"),
                    earlyStop |-> r_hist.earlyStop
                                    \/ \E i \in 1..r_n : StoppedEarly(r_cfg, st.gens[i])]

RunNext_NextConfig ==
  /\ r_st.err = "ok"
  /\ r_poll \in {"True", "False"}
  /\ r_steps < MaxRunSteps
  /\ LET st == RunNextConfig(r_cfg, r_n, r_st)
     IN  /\ r_st' = st
         /\ r_emitted' = r_emitted \o st.out
         /\ IF st.err = "ok"
            THEN RunPolled(st, st.out # <<>>)
            ELSE UNCHANGED <<r_poll, r_hist>>
  /\ r_steps' = r_steps + 1
  /\ UNCHANGED <<r_cfg, r_models, r_n, r_calls, autoVars, perfVars,
               callVars>>

RunNext_SetLastResults ==
  /\ r_st.err = "ok"
  /\ r_poll \in {"True", "False"}
  /\ r_steps < MaxRunSteps
  /\ \E ms \in RunFeedbacks(r_calls + 1) :
       LET st == RunSetLastResults(r_cfg, r_n, r_st, ms)
       IN  /\ r_st' = st
           /\ IF st.err = "ok"
              THEN RunPolled(st, FALSE)
              ELSE UNCHANGED <<r_poll, r_hist>>
  /\ r_calls' = r_calls + 1
  /\ r_steps' = r_steps + 1
  /\ UNCHANGED <<r_cfg, r_models, r_n, r_emitted, autoVars, perfVars,
               callVars>>

RunNext == RunNext_NextConfig \/ RunNext_SetLastResults

(***************************************************************************)
(* PerfAnalyzerConfig, modelled from the specification (error handling:    *)
(* an invalid load-tool key is fatal at configuration time) and from       *)
(* test_perf_analyzer_config: its source is not part of the sources at     *)
(* hand.  The config is the function from the arguments that were set to   *)
(* their values.                                                           *)
(***************************************************************************)

\* the arguments of the load tool that the generator and the tests set
PerfConfigArgs ==
  { "model-name", "batch-size", "concurrency-range", "measurement-mode",
    "protocol", "url", "service-kind", "triton-server-directory",
    "model-repository", "percentile", "extra-verbose" }

\* what reading an argument that was never set gives (None)
NoneValue == 0 - 1

PerfConfigSetItemMutAcceptAll(config, key, value) ==
  [config |-> (key :> value) @@ config, err |-> "ok"]

\* config[key] = value
PerfConfigSetItem(config, key, value) ==
  IF key \in PerfConfigArgs
  THEN [config |-> (key :> value) @@ config, err |-> "ok"]
  ELSE [config |-> config, err |-> "TritonModelAnalyzerException"]

\* config[key]
PerfConfigGetItem(config, key) ==
  IF key \in DOMAIN config THEN config[key] ELSE NoneValue

(***************************************************************************)
(* Specification SpecPerfConfig: one PerfAnalyzerConfig whose arguments    *)
(* are set and read in any order.                                          *)
(***************************************************************************)

\* the keys the driver sets: those of test_perf_analyzer_config
PerfConfigKeys == {"model-name", "concurrency-range", "extra-verbose", "dummy"}

\* largest value the driver sets
MaxValue == 2

PerfConfigInit ==
  /\ k_obj = NoFlags
  /\ k_call = [op |-> "init"]
  /\ k_ret = [err |-> "ok"]

PerfConfigSet ==
  \E key \in PerfConfigKeys, value \in 1..MaxValue :
    LET r == PerfConfigSetItem(k_obj, key, value)
    IN  /\ k_obj' = r.config
        /\ k_call' = [op |-> "set", key |-> key, value |-> value]
        /\ k_ret' = [err |-> r.err]
        /\ UNCHANGED <<autoVars, perfVars, runVars>>

PerfConfigGet ==
  \E key \in PerfConfigKeys \cap PerfConfigArgs :
    /\ k_call' = [op |-> "get", key |-> key]
    /\ k_ret' = [err |-> "ok", value |-> PerfConfigGetItem(k_obj, key)]
    /\ UNCHANGED <<k_obj, autoVars, perfVars, runVars>>

PerfConfigNext == PerfConfigSet \/ PerfConfigGet

(***************************************************************************)
(* ConstraintManager.check_constraints                                     *)
(*                                                                         *)
(* constraints : dict from metric tag to a dict with the keys 'min' and/or *)
(*               'max'                                                     *)
(* data        : run_config_measurement.data(), one list of metrics per    *)
(*               model; a metric is a record [tag, value]                  *)
(***************************************************************************)
\* the comparisons with '<=' and '>='
MetricFailsMutInclusive(constraints, metric) ==
  IF metric.tag \in DOMAIN constraints
  THEN LET constraint == constraints[metric.tag]
       IN  IF "min" \in DOMAIN constraint /\ metric.value <= constraint["min"]
           THEN TRUE
           ELSE "max" \in DOMAIN constraint /\ metric.value >= constraint["max"]
  ELSE FALSE

\* the body of the inner loop: TRUE when it executes 'return False'
MetricFails(constraints, metric) ==
  IF metric.tag \in DOMAIN constraints
  THEN LET constraint == constraints[metric.tag]
       IN  IF "min" \in DOMAIN constraint /\ metric.value < constraint["min"]
           THEN TRUE
           ELSE "max" \in DOMAIN constraint /\ metric.value > constraint["max"]
  ELSE FALSE

\* for metric in model_metrics, from position j on
RECURSIVE ModelMetricsPass(_, _, _)
ModelMetricsPass(constraints, model_metrics, j) ==
  IF j > Len(model_metrics) THEN TRUE
  ELSE IF MetricFails(constraints, model_metrics[j]) THEN FALSE
  ELSE ModelMetricsPass(constraints, model_metrics, j + 1)

\* for model_metrics in run_config_measurement.data(), from position m on
RECURSIVE DataPasses(_, _, _)
DataPasses(constraints, data, m) ==
  IF m > Len(data) THEN TRUE
  ELSE IF ~ModelMetricsPass(constraints, data[m], 1) THEN FALSE
  ELSE DataPasses(constraints, data, m + 1)

CheckConstraints(constraints, data) ==
  IF DOMAIN constraints # {} THEN DataPasses(constraints, data, 1) ELSE TRUE

\* the limits the constraints of the driver use
ConstraintMin == 1

ConstraintMax == 2

ThroughputLimits ==
  { ("min" :> ConstraintMin), ("max" :> ConstraintMax),
    ("min" :> ConstraintMin @@ "max" :> ConstraintMax) }

LatencyLimits == { ("max" :> ConstraintMax) }

\* no constraints, constraints on the throughput, on the latency, on both
Constraints ==
  {<<>>}
  \cup { ("perf_throughput" :> c) : c \in ThroughputLimits }
  \cup { ("perf_latency_p99" :> c) : c \in LatencyLimits }
  \cup { ("perf_throughput" :> c @@ "perf_latency_p99" :> d) :
           c \in ThroughputLimits, d \in LatencyLimits }

\* the metrics the measurements hold; gpu_used_memory is never constrained
MeasuredTags == {"perf_throughput", "perf_latency_p99", "gpu_used_memory"}

MetricValues == 0..(MaxValue + 1)

\* the numbers of metrics one model has in a measurement
MetricCounts == {0, 1, 2}

\* the numbers of models a measurement covers
ModelCounts == {1, 2}

Metrics == [tag : MeasuredTags, value : MetricValues]

ModelMetrics == UNION { [1..n -> Metrics] : n \in MetricCounts }

Measurements == UNION { [1..n -> ModelMetrics] : n \in ModelCounts }

\* the constraints and the measurement of one call
ConstraintsInit ==
  /\ k_obj \in Constraints
  /\ k_call \in [op : {"pending"}, data : Measurements]
  /\ k_ret = [err |-> "ok"]

ConstraintsCheck ==
  /\ k_call.op = "pending"
  /\ k_call' = [k_call EXCEPT !.op = "check_constraints"]
  /\ k_ret' = [err |-> "ok", value |-> CheckConstraints(k_obj, k_call.data)]
  /\ UNCHANGED <<k_obj, autoVars, perfVars, runVars>>

ConstraintsNext == ConstraintsCheck

(***************************************************************************)
(* The specifications.                                                     *)
(***************************************************************************)
AutoIdle ==
  /\ a_cfg = [min_inst |-> 1, max_inst |-> 1, min_bs |-> 1, max_bs |-> 1,
              cpu_only |-> FALSE,
              base_config |-> DefaultBaseConfig]
  /\ a_mcg = McgInit(BaseModelName)
  /\ a_emitted = <<>>
  /\ a_poll = FALSE
  /\ a_lastop = "init"
  /\ a_hist = [protocol |-> TRUE, noNone |-> TRUE,
               fb |-> "none", prevFb |-> "none"]

PerfIdle ==
  /\ p_cli = Cli(<<1>>, <<1>>, TRUE, 1)
  /\ p_flags = NoFlags
  /\ p_tps = {}
  /\ p_pacg = PacgInit(p_cli, BaseModelName, p_flags)
  /\ p_emitted = <<>>
  /\ p_poll = "False"
  /\ p_err = "ok"
  /\ p_hist = [protocol |-> TRUE, setWhileDone |-> FALSE]

RunIdle ==
  /\ r_cfg = [auto |-> [min_inst |-> 1, max_inst |-> 1, min_bs |-> 1,
                        max_bs |-> 1, cpu_only |-> FALSE,
                        base_config |-> DefaultBaseConfig],
              cli  |-> Cli(<<1>>, <<1>>, TRUE, 1)]
  /\ r_models = <<[triton_server_environment |-> <<>>]>>
  /\ r_n = 1
  /\ r_st = RunInitState(r_models)
  /\ r_emitted = <<>>
  /\ r_poll = "False"
  /\ r_calls = 0
  /\ r_steps = 0
  /\ r_hist = [doneSeen |-> FALSE, emittedAfterDone |-> FALSE,
               emittedWhileDone |-> FALSE, earlyStop |-> FALSE]

CallIdle ==
  /\ k_obj = <<>>
  /\ k_call = [op |-> "none"]
  /\ k_ret = [err |-> "ok"]

InitAuto == AutoInit /\ PerfIdle /\ RunIdle /\ CallIdle

SpecAuto == InitAuto /\ [][AutoNext]_vars

InitPerf == PerfInit /\ AutoIdle /\ RunIdle /\ CallIdle

SpecPerf == InitPerf /\ [][PerfNext]_vars

InitLoad == LoadInit /\ AutoIdle /\ RunIdle /\ CallIdle

SpecLoad == InitLoad /\ [][LoadNext]_vars

InitManual == ManualInit /\ PerfIdle /\ RunIdle /\ CallIdle

SpecManual == InitManual /\ [][ManualNext]_vars

InitPerfConfig == PerfConfigInit /\ AutoIdle /\ PerfIdle /\ RunIdle

SpecPerfConfig == InitPerfConfig /\ [][PerfConfigNext]_vars

InitConstraints == ConstraintsInit /\ AutoIdle /\ PerfIdle /\ RunIdle

SpecConstraints == InitConstraints /\ [][ConstraintsNext]_vars

InitRun == RunInit /\ AutoIdle /\ PerfIdle /\ CallIdle

SpecRun == InitRun /\ [][RunNext]_vars

(***************************************************************************)
(* Properties of the automatic generator (SpecAuto).                       *)
(***************************************************************************)
\* number of values b, 2b, 4b, ... that are <= max
RECURSIVE LadderCount(_, _)
LadderCount(b, max) == IF b > max THEN 0 ELSE 1 + LadderCount(2 * b, max)

IsSweep(config) == config.combo # DEFAULT_PARAM_COMBO

CountOf(config) == config.combo.instance_group[1].count

BatchOf(config) == config.combo.max_batch_size

\* the driver kept to the loop and the last thing it did was to poll
AutoPolled(result) ==
  a_hist.protocol /\ a_lastop = "poll" /\ a_poll = result

\* C1: polled before each next() and fed no None, the generator has emitted
\* exactly N*K + 1 candidates when is_done() becomes true, with
\* N = max_inst - min_inst + 1 and K the number of min_bs*2^j <= max_bs
C1_EmitsNKPlusOne ==
  LET N == a_cfg.max_inst - a_cfg.min_inst + 1
      K == LadderCount(a_cfg.min_bs, a_cfg.max_bs)
  IN  a_hist.noNone =>
        /\ AutoPolled(TRUE) => Len(a_emitted) = N * K + 1
        /\ AutoPolled(FALSE) => Len(a_emitted) < N * K + 1

\* C2: feedback with a None for candidate (c, bs), c < max_inst, makes the
\* next candidate (c + 1, min_bs)
C2_NoneAdvancesInstanceCount ==
  LET n == Len(a_emitted)
  IN  (/\ n >= 2
       /\ a_hist.prevFb = "hasNone"
       /\ IsSweep(a_emitted[n - 1])
       /\ CountOf(a_emitted[n - 1]) < a_cfg.max_inst)
      => /\ IsSweep(a_emitted[n])
         /\ CountOf(a_emitted[n]) = CountOf(a_emitted[n - 1]) + 1
         /\ BatchOf(a_emitted[n]) = a_cfg.min_bs

\* a None was recorded for a candidate whose batch size could still have
\* been doubled, and the next candidate has been emitted
C2_Witness ==
  LET n == Len(a_emitted)
  IN  /\ n >= 2
      /\ a_hist.prevFb = "hasNone"
      /\ IsSweep(a_emitted[n - 1])
      /\ CountOf(a_emitted[n - 1]) < a_cfg.max_inst
      /\ 2 * BatchOf(a_emitted[n - 1]) <= a_cfg.max_bs

\* C3: once advanced, is_done() returns True iff instance_count >= max_inst
\* and (2 * max_batch_size > max_bs or the last feedback contains a None)
C3_IsDoneIff ==
  (a_lastop = "poll" /\ a_mcg.live)
  => (a_poll <=> /\ a_mcg.inst >= a_cfg.max_inst
                 /\ \/ 2 * a_mcg.bs > a_cfg.max_bs
                    \/ HasNone(a_mcg.last))

\* is_done() returned True at max_inst only because of a None
C3_Witness ==
  /\ a_lastop = "poll" /\ a_poll /\ a_mcg.live
  /\ a_mcg.inst = a_cfg.max_inst
  /\ 2 * a_mcg.bs <= a_cfg.max_bs
  /\ HasNone(a_mcg.last)

\* C4: the first candidate after the default probe is (min_inst, min_bs)
\* and no candidate has an instance count below min_inst
C4_SweepStartsAtMinInst ==
  /\ Len(a_emitted) >= 2 =>
       /\ IsSweep(a_emitted[2])
       /\ CountOf(a_emitted[2]) = a_cfg.min_inst
       /\ BatchOf(a_emitted[2]) = a_cfg.min_bs
  /\ \A i \in DOMAIN a_emitted :
       IsSweep(a_emitted[i]) => CountOf(a_emitted[i]) >= a_cfg.min_inst

\* C10: the first candidate is the default probe, named
\* '<base>_config_default', and no later candidate is the default probe
C10_DefaultFirstAndOnce ==
  Len(a_emitted) >= 1 =>
    /\ a_emitted[1].combo = DEFAULT_PARAM_COMBO
    /\ a_emitted[1].name = <<BaseModelName, "default">>
    /\ \A i \in 2..Len(a_emitted) :
         /\ a_emitted[i].combo # DEFAULT_PARAM_COMBO
         /\ a_emitted[i].name # <<BaseModelName, "default">>

\* the sweep went on for several candidates after the default probe
C10_Witness ==
  /\ Len(a_emitted) >= 4
  /\ a_emitted[1].combo = DEFAULT_PARAM_COMBO

\* C11: every emitted config has a non-empty name that no other emitted
\* config has: the first is '<base>_config_default', the candidate after it
\* '<base>_config_0', and the index grows by one with each candidate
C11_NamesUniqueAndIncreasing ==
  /\ \A i \in DOMAIN a_emitted :
       /\ a_emitted[i].name # <<>>
       /\ a_emitted[i].name = IF i = 1 THEN <<BaseModelName, "default">>
                                      ELSE <<BaseModelName, "index", i - 2>>
  /\ \A i, j \in DOMAIN a_emitted :
       i # j => a_emitted[i].name # a_emitted[j].name

\* the default probe and two numbered candidates have been emitted
C11_Witness ==
  /\ Len(a_emitted) >= 3
  /\ a_emitted[2].name = <<BaseModelName, "index", 0>>
  /\ a_emitted[3].name = <<BaseModelName, "index", 1>>

C14_BatchInnerInstanceOuter ==
  a_hist.noNone =>
    /\ Len(a_emitted) >= 2 => BatchOf(a_emitted[2]) = a_cfg.min_bs
    /\ \A i \in 3..Len(a_emitted) :
         IF 2 * BatchOf(a_emitted[i - 1]) <= a_cfg.max_bs
         THEN /\ CountOf(a_emitted[i]) = CountOf(a_emitted[i - 1])
              /\ BatchOf(a_emitted[i]) = 2 * BatchOf(a_emitted[i - 1])
         ELSE /\ CountOf(a_emitted[i]) = CountOf(a_emitted[i - 1]) + 1
              /\ BatchOf(a_emitted[i]) = a_cfg.min_bs

\* a sweep over several batch sizes is at its second instance count, past
\* the restart at min_bs
C14_Witness ==
  /\ a_hist.noNone
  /\ a_hist.protocol
  /\ Len(a_emitted) >= 5
  /\ CountOf(Last(a_emitted)) = 2
  /\ BatchOf(Last(a_emitted)) > a_cfg.min_bs

\* C15: is_done() returns False as long as next() has not been called on the
\* coroutine, whatever the search options and the recorded results
C15_NotDoneBeforeFirstNext ==
  (a_lastop = "poll" /\ a_mcg.pc = "new") => a_poll = FALSE

\* is_done() was called before the first next() in a state where the walk
\* itself counts as finished
C15_Witness ==
  /\ a_lastop = "poll"
  /\ a_mcg.pc = "new"
  /\ DoneWalking(a_cfg, a_mcg)

\* the fields of a model config that hold a message (a dict) rather than a
\* scalar or a list
MessageFields == {"dynamic_batching"}

BaseDict == GetBaseModelConfigDict(a_cfg)

\* C27: where the config file and the overlay both hold a dict at a key, the
\* nested keys of the config file that the overlay does not set are kept with
\* their values (max_queue_delay_microseconds of dynamic_batching survives
\* the overlay dynamic_batching = {}).
C27_NestedBaseKeysSurvive ==
  \A i \in DOMAIN a_emitted :
    \A k \in (MessageFields \cap DOMAIN BaseDict) \cap DOMAIN a_emitted[i].combo :
      \A n \in DOMAIN BaseDict[k] \ DOMAIN a_emitted[i].combo[k] :
        /\ n \in DOMAIN a_emitted[i].dict[k]
        /\ a_emitted[i].dict[k][n] = BaseDict[k][n]

C29_OneInstanceGroupOfModelKind ==
  \A i \in DOMAIN a_emitted :
    IsSweep(a_emitted[i]) =>
      /\ Len(a_emitted[i].dict.instance_group) = 1
      /\ a_emitted[i].dict.instance_group[1].kind =
           (IF a_cfg.cpu_only THEN "KIND_CPU" ELSE "KIND_GPU")
      /\ "dynamic_batching" \in DOMAIN a_emitted[i].dict

C29_Witness ==
  /\ a_cfg.cpu_only
  /\ Len(a_emitted) >= 3
  /\ IsSweep(a_emitted[3])
  /\ a_emitted[3].dict.instance_group[1].kind = "KIND_CPU"

\* C33: driven by the loop, the generator has returned at most
\* max_inst * K + 1 candidates, K the number of min_bs*2^j <= max_bs, and
\* when it has returned that many is_done() is true, whatever the feedback
\* was, given max_inst >= 1.
C33_DoneWithinMaxInstTimesK ==
  LET K == LadderCount(a_cfg.min_bs, a_cfg.max_bs)
  IN  (a_hist.protocol /\ a_cfg.max_inst >= 1) =>
        /\ Len(a_emitted) <= a_cfg.max_inst * K + 1
        /\ (a_lastop = "poll" /\ Len(a_emitted) = a_cfg.max_inst * K + 1)
             => a_poll

\* the loop ended at the bound after clean feedback only
C33_Witness ==
  /\ AutoPolled(TRUE)
  /\ a_hist.noNone
  /\ a_cfg.max_inst = 2
  /\ a_cfg.min_inst = 2
  /\ LadderCount(a_cfg.min_bs, a_cfg.max_bs) = 3
  /\ Len(a_emitted) = 7

\* the loop ended below the bound after feedback with a None
C33_WitnessNone ==
  /\ AutoPolled(TRUE)
  /\ ~a_hist.noNone
  /\ a_cfg.max_inst = 2
  /\ Len(a_emitted) < 2 * LadderCount(a_cfg.min_bs, a_cfg.max_bs) + 1

Tp(i) == p_pacg.all[i].tp

AllPositive == \A i \in DOMAIN p_pacg.all : Tp(i) > 0

\* the relative gain of sample n - i + 1 over sample n - i is <= 0.05
SmallGain(i) ==
  LET n == Len(p_pacg.all)
  IN  100 * (Tp(n - i + 1) - Tp(n - i)) <= 5 * Tp(n - i)

\* at least 4 samples and the three most recent gains are all <= 0.05
Plateau == Len(p_pacg.all) >= 4 /\ \A i \in 1..3 : SmallGain(i)

CandidatesRemain == p_pacg.index < Len(p_pacg.configs)

\* C7: is_done() is true iff the index equals the number of candidates, or
\* the last measurement list is empty, or the plateau predicate fires; before
\* any feedback it is false as long as candidates remain
C7_IsDoneIffAnyOfThree ==
  /\ p_poll \in {"True", "False"} =>
       (p_poll = "True" <=> \/ p_pacg.index = Len(p_pacg.configs)
                            \/ p_pacg.last = <<>>
                            \/ Plateau)
  /\ (p_pacg.last = <<ValidMarker>> /\ CandidatesRemain) => p_poll = "False"

\* is_done() returned True with candidates left after an empty measurement list
C7_Witness ==
  /\ p_poll = "True"
  /\ CandidatesRemain
  /\ p_pacg.last = <<>>
  /\ ~Plateau

\* C8: with candidates left and a non-empty last list, is_done() is true
\* exactly when there are at least 4 samples and the gains i = 1, 2, 3 are all
\* <= 0.05; false after 10, 11, 11.1, 11.15 and true after a fifth 11.17
C8_PlateauExactlyThreeSmallGains ==
  (CandidatesRemain /\ p_pacg.last # <<>> /\ AllPositive) =>
    /\ p_poll = "True" <=> Plateau
    /\ Len(p_pacg.all) < 4 => p_poll = "False"
    /\ [i \in DOMAIN p_pacg.all |-> Tp(i)] = <<1000, 1100, 1110, 1115>>
         => p_poll = "False"
    /\ [i \in DOMAIN p_pacg.all |-> Tp(i)] = <<1000, 1100, 1110, 1115, 1117>>
         => p_poll = "True"

\* the fifth sample 11.17 was recorded with candidates left
C8_Witness ==
  /\ CandidatesRemain
  /\ p_pacg.last # <<>>
  /\ [i \in DOMAIN p_pacg.all |-> Tp(i)] = <<1000, 1100, 1110, 1115, 1117>>
  /\ p_poll = "True"

\* C21: the k-th next_config() returned the k-th element of the list built
\* by the constructor and the index is the number of candidates returned, so
\* set_last_results leaves the index and the list alone; the index is within
\* 0..length, and a driver that polls is_done() before each next_config()
\* never has a call fail
C21_KthCallReturnsKthCandidate ==
  /\ p_pacg.configs = PacgInit(p_cli, BaseModelName, p_flags).configs
  /\ p_pacg.index \in 0..Len(p_pacg.configs)
  /\ Len(p_emitted) = p_pacg.index
  /\ \A k \in DOMAIN p_emitted : p_emitted[k] = p_pacg.configs[k]
  /\ p_hist.protocol => p_err = "ok"

\* both candidates were returned to a polling driver, with results recorded
\* in between
C21_Witness ==
  /\ p_hist.protocol
  /\ p_err = "ok"
  /\ Len(p_pacg.configs) = 2
  /\ p_pacg.index = 2
  /\ Len(p_pacg.all) >= 2

\* C37 as stated: once is_done() has returned True it returns True after
\* every set_last_results that follows without a next_config in between.
C37_DoneStaysDone ==
  [][(p_poll = "True" /\ p_pacg'.index = p_pacg.index) => p_poll' = "True"]_vars

\* C37: once every candidate has been returned is_done() is True and stays
\* True whatever results are recorded afterwards; while candidates remain
\* it is recomputed from the results, so that it returns to False when a
\* non-empty list without a plateau is recorded after an empty one.
C37_DoneStableOnceAllReturned ==
  /\ [](p_pacg.index = Len(p_pacg.configs) => p_poll = "True")
  /\ [][(p_poll = "True" /\ p_pacg.index = Len(p_pacg.configs))
         => p_poll' = "True"]_vars
  /\ [][(/\ p_poll = "True"
          /\ p_pacg'.index = p_pacg.index
          /\ CandidatesRemain
          /\ p_pacg'.last # <<>>
          /\ Len(p_pacg'.all) < 4)
         => p_poll' = "False"]_vars

\* results were recorded after the last candidate had been returned and
\* is_done() is still True, for no other reason
C37_Witness ==
  /\ p_hist.setWhileDone
  /\ p_pacg.index = Len(p_pacg.configs)
  /\ p_pacg.last # <<>>
  /\ AllPositive
  /\ ~Plateau
  /\ p_poll = "True"

\* the gain of sample n - i + 1 over sample n - i is > 0.05
BigGain(i) ==
  LET n == Len(p_pacg.all)
  IN  Tp(n - i) # 0 /\ 100 * (Tp(n - i + 1) - Tp(n - i)) > 5 * Tp(n - i)

\* is_done() computes gain i: the poll got as far as the plateau test and
\* no gain before i raised or exceeded the threshold
GainEvaluated(i) ==
  /\ CandidatesRemain
  /\ p_pacg.last # <<>>
  /\ Len(p_pacg.all) >= 4
  /\ \A j \in 1..(i - 1) : Tp(Len(p_pacg.all) - j) # 0 /\ ~BigGain(j)

\* C39: is_done() returns a boolean when all recorded throughputs are
\* positive, and it raises ZeroDivisionError exactly when a gain it computes
\* has a sample of throughput 0 as its denominator.
C39_ZeroThroughputRaises ==
  /\ AllPositive => p_poll \in {"True", "False"}
  /\ p_poll = "ZeroDivisionError" <=>
       \E i \in 1..3 : GainEvaluated(i) /\ Tp(Len(p_pacg.all) - i) = 0
  /\ p_poll \in {"True", "False", "ZeroDivisionError"}

\* the poll raised on a sample of throughput 0 that was not the latest
C39_Witness ==
  /\ p_poll = "ZeroDivisionError"
  /\ Len(p_pacg.all) >= 4
  /\ Tp(Len(p_pacg.all) - 1) # 0
  /\ Tp(Len(p_pacg.all) - 2) = 0

(***************************************************************************)
(* Properties of the load generator's candidate list (SpecLoad).           *)
(***************************************************************************)
\* the user's flags set neither key of the sweep
SweepKeysFree ==
  /\ "batch-size" \notin DOMAIN p_flags
  /\ "concurrency-range" \notin DOMAIN p_flags

\* C22: polled without feedback the generator returns |B| * |C| candidates,
\* the k-th with batch size B[(k-1) div |C| + 1] and concurrency
\* C[(k-1) mod |C| + 1]; batch sizes 1, 2, 4 and concurrencies 1, 2, 3, 4
\* give 12 candidates
C22_BatchSlowestConcurrencyFastest ==
  LET B == p_cli.batch_sizes
      C == CreateConcurrencyList(p_cli)
  IN  /\ p_poll = "True" => Len(p_emitted) = Len(B) * Len(C)
      /\ p_poll = "False" => Len(p_emitted) < Len(B) * Len(C)
      /\ SweepKeysFree =>
           \A k \in DOMAIN p_emitted :
             /\ p_emitted[k]["batch-size"] = B[((k - 1) \div Len(C)) + 1]
             /\ p_emitted[k]["concurrency-range"] = C[((k - 1) % Len(C)) + 1]
      /\ (B = <<1, 2, 4>> /\ p_cli.concurrency = <<1, 2, 3, 4>> /\ p_poll = "True")
           => Len(p_emitted) = 12

\* the sweep of 3 batch sizes and 4 concurrencies was drained
C22_Witness ==
  /\ p_cli.batch_sizes = <<1, 2, 4>>
  /\ p_cli.concurrency = <<1, 2, 3, 4>>
  /\ p_flags = NoFlags
  /\ p_poll = "True"
  /\ Len(p_emitted) = 12

RECURSIVE Pow2(_)
Pow2(k) == IF k = 0 THEN 1 ELSE 2 * Pow2(k - 1)

\* 1, 2, 4, ..., 2^k with 2^k <= max < 2^(k+1)
ExpectedLadder(max) ==
  LET k == CHOOSE j \in 0..max : Pow2(j) <= max /\ max < Pow2(j + 1)
  IN  [i \in 1..(k + 1) |-> Pow2(i - 1)]

ExpectedConcurrency ==
  IF p_cli.concurrency # <<>> THEN p_cli.concurrency
  ELSE IF p_cli.run_config_search_disable THEN <<1>>
  ELSE ExpectedLadder(p_cli.run_config_search_max_concurrency)

\* C23: the concurrencies of the candidates of the first batch size are the
\* user's list if it is not empty, else 1 alone if the search is disabled,
\* else 1, 2, 4, ..., 2^k with 2^k <= max_concurrency < 2^(k+1); a maximum
\* of 16 gives five values
C23_ConcurrencyListChoice ==
  (p_poll = "True" /\ "concurrency-range" \notin DOMAIN p_flags) =>
    LET n == Len(p_emitted) \div Len(p_cli.batch_sizes)
    IN  /\ [k \in 1..n |-> p_emitted[k]["concurrency-range"]] = ExpectedConcurrency
        /\ (/\ p_cli.concurrency = <<>>
            /\ ~p_cli.run_config_search_disable
            /\ p_cli.run_config_search_max_concurrency = 16)
           => n = 5 /\ p_emitted[5]["concurrency-range"] = 16

\* the ladder up to 16 was drained
C23_Witness ==
  /\ p_cli.concurrency = <<>>
  /\ ~p_cli.run_config_search_disable
  /\ p_cli.run_config_search_max_concurrency = 16
  /\ p_cli.batch_sizes = <<1>>
  /\ "concurrency-range" \notin DOMAIN p_flags
  /\ p_poll = "True"
  /\ Len(p_emitted) = 5

CApiKeys == {"service-kind", "triton-server-directory", "model-repository"}

NetworkKeys == {"protocol", "url"}

\* C31: each candidate carries one set of transport keys: in c_api launch
\* mode service-kind = triton_c_api, triton-server-directory and
\* model-repository and neither protocol nor url; in any other launch mode
\* protocol and url and none of the c_api keys, the url being the HTTP
\* endpoint if the client protocol is http and the gRPC endpoint otherwise.
C31_OneTransportKeySet ==
  \A k \in DOMAIN p_emitted :
    LET config == p_emitted[k]
    IN  IF p_cli.triton_launch_mode = "c_api"
        THEN /\ CApiKeys \subseteq DOMAIN config
             /\ NetworkKeys \cap DOMAIN config = {}
             /\ config["service-kind"] = "triton_c_api"
             /\ config["triton-server-directory"] = p_cli.triton_install_path
             /\ config["model-repository"] = p_cli.output_model_repository_path
        ELSE /\ NetworkKeys \subseteq DOMAIN config
             /\ CApiKeys \cap DOMAIN config = {}
             /\ config["protocol"] = p_cli.client_protocol
             /\ config["url"] = IF p_cli.client_protocol = "http"
                                THEN p_cli.triton_http_endpoint
                                ELSE p_cli.triton_grpc_endpoint

\* candidates were returned in c_api mode with the http client protocol set
C31_Witness ==
  /\ p_cli.triton_launch_mode = "c_api"
  /\ p_cli.client_protocol = "http"
  /\ Len(p_emitted) >= 2
  /\ p_emitted[2]["service-kind"] = "triton_c_api"

\* the combinations of the sweep before the user's flags are applied
SweepCombos ==
  GenerateParameterCombinations(
    CreatePerfConfigParams(p_cli, BaseModelName, CreateConcurrencyList(p_cli)))

\* C30: in every candidate a key of the user's flags has the user's value,
\* also when the sweep sets that key, and every other key has the value of
\* the sweep
C30_UserFlagsWin ==
  \A k \in DOMAIN p_emitted :
    /\ DOMAIN p_emitted[k] = DOMAIN SweepCombos[k] \cup DOMAIN p_flags
    /\ \A key \in DOMAIN p_emitted[k] :
         p_emitted[k][key] = IF key \in DOMAIN p_flags THEN p_flags[key]
                                                       ELSE SweepCombos[k][key]

\* the user fixed the concurrency, which the sweep sets too
C30_Witness ==
  /\ "concurrency-range" \in DOMAIN p_flags
  /\ Len(p_emitted) >= 2
  /\ p_emitted[2]["concurrency-range"] = 7
  /\ SweepCombos[2]["concurrency-range"] # 7

(***************************************************************************)
(* Properties of the manual and the remote variant (SpecManual).           *)
(***************************************************************************)
\* the last call was is_done() and it returned True exactly if b
PolledDoneIff(b) == a_lastop = "poll" => (a_poll <=> b)

\* C24: in remote launch mode the generator emits one candidate, the empty
\* overlay, and is then done, with and without model_config_parameters.
C24_RemoteEmitsOneEmptyOverlay ==
  a_cfg.triton_launch_mode = "remote" =>
    /\ Len(a_emitted) <= 1
    /\ \A i \in DOMAIN a_emitted :
         /\ a_emitted[i].combo = DEFAULT_PARAM_COMBO
         /\ DOMAIN a_emitted[i].dict = {"name"}
    /\ PolledDoneIff(Len(a_emitted) = 1)

C24_Witness ==
  /\ a_cfg.triton_launch_mode = "remote"
  /\ a_cfg.model_config_parameters = TestParameters
  /\ Len(a_emitted) = 1
  /\ a_lastop = "poll"
  /\ a_poll

RECURSIVE ProductSize(_), ProductOver(_)
\* the number of points of the product a node stands for
ProductSize(node) ==
  IF node.t = "scalar" THEN 1
  ELSE IF node.t = "list" THEN Len(node.v)
  ELSE IF node.t = "map"
  THEN ProductOver([i \in DOMAIN node.v |-> node.v[i][2]])
  ELSE ProductOver(node.v)

ProductOver(nodes) ==
  IF nodes = <<>> THEN 1
  ELSE ProductSize(Head(nodes)) * ProductOver(Tail(nodes))

\* the overlays of example 3 of the specification, in lexicographic order
ExampleOverlays ==
  [i \in 1..6 |->
     [max_batch_size |-> <<1, 1, 4, 4, 16, 16>>[i],
      instance_group |-> <<[kind |-> "KIND_GPU",
                            count |-> <<1, 2, 1, 2, 1, 2>>[i]]>>]]

ManualMode ==
  /\ a_cfg.triton_launch_mode = "local"
  /\ a_cfg.model_config_parameters # NoParameters

\* C25: with model_config_parameters and a locally managed server the
\* generator emits one overlay per point of the product of the parameter
\* lists, in the product's order, then the default overlay, and is then
\* done, whether or not run_config_search_disable is set.
C25_ManualProductThenDefault ==
  ManualMode =>
    LET size  == ProductSize(a_cfg.model_config_parameters)
        keys  == {a_cfg.model_config_parameters.v[k][1] :
                    k \in DOMAIN a_cfg.model_config_parameters.v}
    IN  /\ Len(a_emitted) <= size + 1
        /\ \A i \in DOMAIN a_emitted :
             IF i <= size
             THEN /\ DOMAIN a_emitted[i].combo = keys
                  /\ \A j \in DOMAIN a_emitted :
                       j < i => a_emitted[j].combo # a_emitted[i].combo
             ELSE a_emitted[i].combo = DEFAULT_PARAM_COMBO
        /\ a_cfg.model_config_parameters = TestParameters =>
             /\ size = 6
             /\ \A i \in DOMAIN a_emitted :
                  i <= 6 => a_emitted[i].combo = ExampleOverlays[i]
        /\ PolledDoneIff(Len(a_emitted) = size + 1)

C25_Witness ==
  /\ ManualMode
  /\ a_cfg.run_config_search_disable
  /\ a_cfg.model_config_parameters = TestParameters
  /\ Len(a_emitted) = 7
  /\ a_emitted[7].combo = DEFAULT_PARAM_COMBO
  /\ a_lastop = "poll"
  /\ a_poll

SearchDisabledNoParameters ==
  /\ a_cfg.triton_launch_mode = "local"
  /\ a_cfg.run_config_search_disable
  /\ a_cfg.model_config_parameters = NoParameters

\* C26: with run_config_search_disable and no model_config_parameters the
\* generator emits one candidate, the default probe, whose config is the
\* config file's with the name assigned, and is then done.
C26_SearchDisabledOnlyDefault ==
  SearchDisabledNoParameters =>
    /\ Len(a_emitted) <= 1
    /\ \A i \in DOMAIN a_emitted :
         /\ a_emitted[i].combo = DEFAULT_PARAM_COMBO
         /\ a_emitted[i].name = <<BaseModelName, "default">>
         /\ a_emitted[i].dict =
              ("name" :> a_emitted[i].name) @@ GetBaseModelConfigDict(a_cfg)
    /\ PolledDoneIff(Len(a_emitted) = 1)

C26_Witness ==
  /\ SearchDisabledNoParameters
  /\ Len(a_emitted) = 1
  /\ a_emitted[1].dict.max_batch_size = 8
  /\ a_lastop = "poll"
  /\ a_poll

(***************************************************************************)
(* Properties of PerfAnalyzerConfig (SpecPerfConfig).                      *)
(***************************************************************************)
\* C32: setting a key that is not an argument of the load tool raises
\* TritonModelAnalyzerException in that assignment and leaves the config as
\* it was; setting an argument succeeds, a read of it returns the value last
\* set, and an argument never set reads as None.
C32_UnsupportedKeyRaisesOnSet ==
  /\ [][k_call'.op = "set" =>
          IF k_call'.key \in PerfConfigArgs
          THEN /\ k_ret'.err = "ok"
               /\ PerfConfigGetItem(k_obj', k_call'.key) = k_call'.value
               /\ \A key \in PerfConfigArgs \ {k_call'.key} :
                     PerfConfigGetItem(k_obj', key) = PerfConfigGetItem(k_obj, key)
          ELSE /\ k_ret'.err = "TritonModelAnalyzerException"
               /\ k_obj' = k_obj]_vars
  /\ [][(k_call.op = "set" /\ k_ret.err = "ok" /\ k_call'.op = "get"
           /\ k_call'.key = k_call.key) => k_ret'.value = k_call.value]_vars
  /\ [](DOMAIN k_obj \subseteq PerfConfigArgs)
  /\ []((k_call.op = "get" /\ k_call.key \notin DOMAIN k_obj)
          => k_ret.value = NoneValue)

\* an argument was set, and the assignment to 'dummy' that followed raised
C32_Witness ==
  /\ k_call.op = "set"
  /\ k_call.key = "dummy"
  /\ k_ret.err = "TritonModelAnalyzerException"
  /\ "model-name" \in DOMAIN k_obj
  /\ k_obj["model-name"] = 2

(***************************************************************************)
(* Properties of check_constraints (SpecConstraints).                      *)
(***************************************************************************)
\* the metric's tag is constrained and its value is below the 'min' or
\* above the 'max' of the constraint
OutOfRange(metric) ==
  /\ metric.tag \in DOMAIN k_obj
  /\ \/ /\ "min" \in DOMAIN k_obj[metric.tag]
        /\ metric.value < k_obj[metric.tag]["min"]
     \/ /\ "max" \in DOMAIN k_obj[metric.tag]
        /\ metric.value > k_obj[metric.tag]["max"]

\* the metric's value is the 'min' or the 'max' of its constraint
OnLimit(metric) ==
  /\ metric.tag \in DOMAIN k_obj
  /\ \E b \in DOMAIN k_obj[metric.tag] : metric.value = k_obj[metric.tag][b]

MetricsOf(data) == UNION { Range(data[m]) : m \in DOMAIN data }

\* C40: check_constraints returns False exactly when the constraints are
\* not empty and some metric of some model has a constrained tag and a
\* value below the 'min' or above the 'max'; otherwise it returns True, so
\* for empty constraints, and when every metric is unconstrained or on a
\* limit or between the limits.
C40_FalseIffSomeMetricOutOfRange ==
  k_call.op = "check_constraints" =>
    LET ms == MetricsOf(k_call.data)
    IN  /\ k_ret.err = "ok"
        /\ k_ret.value = FALSE <=>
             (k_obj # <<>> /\ \E metric \in ms : OutOfRange(metric))
        /\ k_ret.value \in BOOLEAN
        /\ k_obj = <<>> => k_ret.value = TRUE
        /\ (\A metric \in ms :
              metric.tag \notin DOMAIN k_obj \/ ~OutOfRange(metric))
           => k_ret.value = TRUE

\* two models measured under a 'min' and a 'max' on the throughput: one
\* metric on the 'min', one on the 'max', one unconstrained, and the
\* measurement passes
C40_Witness ==
  /\ k_call.op = "check_constraints"
  /\ k_obj = ("perf_throughput" :> ("min" :> ConstraintMin @@ "max" :> ConstraintMax))
  /\ Len(k_call.data) = 2
  /\ \E metric \in Range(k_call.data[1]) :
       metric.tag = "perf_throughput" /\ metric.value = ConstraintMin
  /\ \E metric \in Range(k_call.data[2]) :
       metric.tag = "perf_throughput" /\ metric.value = ConstraintMax
  /\ \E metric \in MetricsOf(k_call.data) :
       metric.tag = "gpu_used_memory" /\ metric.value = 0
  /\ \A metric \in MetricsOf(k_call.data) : OnLimit(metric) \/ ~OutOfRange(metric)
  /\ k_ret.value = TRUE

(***************************************************************************)
(* Properties of the run generator (SpecRun).                              *)
(***************************************************************************)
\* the levels whose generator was handed a list in this step
Delivered == {i \in 1..r_n : Len(r_st'.log[i]) > Len(r_st.log[i])}

\* C5: every measurement reported to set_last_results reaches the generators
\* of a level at most once and in the order of the reports (each report
\* holds at most one measurement, tagged with the number of its call)
C5_DeliveredOnceInOrder ==
  \A i \in 1..r_n :
    LET got == Flatten(r_st.log[i])
    IN  \A a, b \in DOMAIN got : a < b => got[a].call < got[b].call

\* C6: a set_last_results call hands results to the innermost level first
\* and then outward level by level, stopping at the first generator that is
\* not done afterwards: a level receives only if all levels inside it are
\* done after receiving
C6_CascadeInnermostFirst ==
  [][(r_calls' = r_calls + 1 /\ r_st'.err = "ok") =>
       /\ r_n \in Delivered
       /\ \A i \in Delivered :
            /\ Len(r_st'.log[i]) = Len(r_st.log[i]) + 1
            /\ \A j \in (i + 1)..r_n :
                 /\ j \in Delivered
                 /\ MrcgIsDone(r_cfg, r_st'.gens[j]) = "True"
       /\ \A i \in 2..r_n :
            (i \in Delivered /\ i - 1 \notin Delivered)
              => MrcgIsDone(r_cfg, r_st'.gens[i]) = "False"]_vars

\* with two models, the outer level has received, and fewer times than the
\* inner level
C6_Witness ==
  /\ r_n = 2
  /\ r_st.err = "ok"
  /\ Len(r_st.log[1]) >= 1
  /\ Len(r_st.log[2]) > Len(r_st.log[1])

\* C9 as stated: once is_done() has returned True, no next() returns a
\* RunConfig, whatever the driver calls
C9_NoCandidateAfterDone == ~r_hist.emittedAfterDone

\* C9 as amended: a next() called while is_done() is True returns no
\* RunConfig, and no generator is pulled when it has nothing left (which
\* would surface as StopIteration/RuntimeError or IndexError)
C9_NoCandidateWhileDone ==
  /\ ~r_hist.emittedWhileDone
  /\ r_st.err \notin {"StopIteration", "RuntimeError", "IndexError"}

\* next() was called on a finished sweep and returned nothing
C9_Witness ==
  /\ r_st.pc = "stop"
  /\ r_st.err = "ok"
  /\ r_poll = "True"
  /\ Len(r_emitted) >= 2

\* the model run configs of the k-th emitted RunConfig
Slots(k) == r_emitted[k].model_run_configs

EnvsEqual ==
  \A i \in 1..r_n :
    r_models[i].triton_server_environment = r_models[1].triton_server_environment

\* C16: when the models' environments are not all equal the constructor
\* raises and no call is ever made on the generator; when they are equal the
\* constructor does not raise and every RunConfig carries that environment
C16_EnvMismatchIsFatal ==
  /\ ~EnvsEqual =>
       /\ r_st.err = "TritonModelAnalyzerException"
       /\ r_steps = 0
       /\ r_emitted = <<>>
  /\ EnvsEqual =>
       /\ r_st.err # "TritonModelAnalyzerException"
       /\ \A k \in DOMAIN r_emitted :
            r_emitted[k].triton_env = r_models[1].triton_server_environment

\* two models with different environments: construction has failed
C16_Witness ==
  /\ r_n = 2
  /\ r_models[1].triton_server_environment # r_models[2].triton_server_environment
  /\ r_st.err = "TritonModelAnalyzerException"

\* a call of next() on the run generator's coroutine that returned normally
NextReturned ==
  /\ r_steps' = r_steps + 1
  /\ r_calls' = r_calls
  /\ r_st'.err = "ok"

\* the load generator of the innermost level was last handed an empty list
\* although it has candidates left, and another serving configuration exists
EmptyStop ==
  /\ r_st.pc = "yield"
  /\ r_st.gens[r_n].pacg.last = <<>>
  /\ ~AllConfigsReturned(r_st.gens[r_n].pacg)
  /\ ~McgIsDone(r_cfg.auto, r_st.gens[r_n].mcg)

\* C17: a load generator whose last measurement list is empty reports
\* is_done() = True without raising, also with candidates left; the next
\* candidate of that level is then the next serving configuration with the
\* first candidate of a new load generator
C17_EmptyListStopsLoadSweep ==
  /\ [](\A i \in 1..r_n :
          (r_st.gens[i].pc # "none" /\ r_st.gens[i].pacg.last = <<>>)
            => PacgIsDone(r_st.gens[i].pacg) = "True")
  /\ [][(EmptyStop /\ NextReturned) =>
          LET fresh == PacgNextConfig(PacgInit(r_cfg.cli, r_n, NoFlags))
              mc    == McgNextConfig(r_cfg.auto, r_st.gens[r_n].mcg).config
          IN  /\ r_emitted' # r_emitted
              /\ r_st'.cur[r_n].mc = mc
              /\ r_st'.cur[r_n].mc # r_st.cur[r_n].mc
              /\ r_st'.cur[r_n].pa = fresh.config
              /\ r_st'.gens[r_n].pacg = fresh.p]_vars

\* an empty list has stopped a load sweep early and the search is not over
C17_Witness ==
  /\ r_st.err = "ok"
  /\ EmptyStop
  /\ r_poll = "False"
  /\ Len(r_emitted) >= 1

\* C18 as stated: is_done() is true iff the generator of the first model is
\* done
C18_DoneIffOutermostDone ==
  (r_st.err = "ok" /\ r_st.gens[1].pc # "none") =>
    (r_poll = "True" <=> MrcgIsDone(r_cfg, r_st.gens[1]) = "True")

\* C18: is_done() is true iff the generator of the first model exists and
\* the generators of all models are done
C18_DoneIffAllDone ==
  r_st.err = "ok" =>
    (r_poll = "True" <=>
       /\ r_st.gens[1].pc # "none"
       /\ \A i \in 1..r_n :
            /\ r_st.gens[i].pc # "none"
            /\ MrcgIsDone(r_cfg, r_st.gens[i]) = "True")

\* the generator of the first model is done and that of the second is not
C18_Witness ==
  /\ r_n = 2
  /\ r_st.err = "ok"
  /\ r_st.gens[1].pc # "none"
  /\ r_st.gens[2].pc # "none"
  /\ MrcgIsDone(r_cfg, r_st.gens[1]) = "True"
  /\ MrcgIsDone(r_cfg, r_st.gens[2]) = "False"
  /\ r_poll = "False"

\* the contents of the pending queue of level i
Queue(st, i) == st.heap[st.ref[i]]

\* C34: in a set_last_results call that reports ms, each level the cascade
\* reaches is handed, in one call, what its queue held before followed by
\* ms, and its queue is empty afterwards; the queue of a level the cascade
\* does not reach still starts with what it held.
C34_ReachedLevelGetsItsWholeQueue ==
  [][(r_calls' = r_calls + 1 /\ r_st'.err = "ok") =>
       \E ms \in RunFeedbacks(r_calls') :
         \A i \in 1..r_n :
           IF i \in Delivered
           THEN /\ Len(r_st'.log[i]) = Len(r_st.log[i]) + 1
                /\ Last(r_st'.log[i]) = Queue(r_st, i) \o ms
                /\ Queue(r_st', i) = <<>>
           ELSE /\ Len(Queue(r_st', i)) >= Len(Queue(r_st, i))
                /\ SubSeq(Queue(r_st', i), 1, Len(Queue(r_st, i)))
                     = Queue(r_st, i)]_vars

\* C35: after a set_last_results call that reports ms, each queue that was
\* not drained in the call is what it was before followed by ms.
C35_QueuesIndependent ==
  [][(r_calls' = r_calls + 1 /\ r_st'.err = "ok") =>
       \E ms \in RunFeedbacks(r_calls') :
         \A i \in 1..r_n \ Delivered :
           Queue(r_st', i) = Queue(r_st, i) \o ms]_vars

AllLevelsHeld == \A i \in 1..r_n : r_st.gens[i].pc # "none"

\* C36: before the first next() no generator is held and is_done() is
\* False; afterwards a generator is held at every level and is_done() is
\* True exactly when all of them are done, so it is False while an outer
\* generator is done and an inner one is not.
C36_DoneIffEveryLevelDone ==
  r_st.err = "ok" =>
    /\ r_st.pc = "new" =>
         /\ r_poll = "False"
         /\ \A i \in 1..r_n : r_st.gens[i].pc = "none"
    /\ r_st.pc # "new" =>
         /\ AllLevelsHeld
         /\ r_poll \in {"True", "False"} =>
              (r_poll = "True" <=>
                 \A i \in 1..r_n : MrcgIsDone(r_cfg, r_st.gens[i]) = "True")
         /\ (\E i, j \in 1..r_n :
               /\ i < j
               /\ MrcgIsDone(r_cfg, r_st.gens[i]) = "True"
               /\ MrcgIsDone(r_cfg, r_st.gens[j]) = "False")
            => r_poll = "False"

\* after three candidates of two models the outer generator is done, the
\* inner one is not, and the search goes on
C36_Witness ==
  /\ r_n = 2
  /\ r_st.err = "ok"
  /\ r_st.pc = "yield"
  /\ Len(r_emitted) >= 3
  /\ MrcgIsDone(r_cfg, r_st.gens[1]) = "True"
  /\ MrcgIsDone(r_cfg, r_st.gens[2]) = "False"
  /\ r_poll = "False"

\* the candidates one per-model generator yields when no sweep is cut short
RECURSIVE Sweep(_, _)
Sweep(rc, m) ==
  IF MrcgIsDone(rc, m) = "True" THEN <<>>
  ELSE LET r == MrcgNextConfig(rc, m)
       IN  <<r.config>> \o Sweep(rc, r.m)

\* the product of the candidates of two models, the first model's candidate
\* changing slowest
Product2(rc) ==
  LET s1 == Sweep(rc, MrcgInit(rc, 1))
      s2 == Sweep(rc, MrcgInit(rc, 2))
  IN  [k \in 1..(Len(s1) * Len(s2)) |->
         <<s1[((k - 1) \div Len(s2)) + 1], s2[((k - 1) % Len(s2)) + 1]>>]

\* C19: whenever a next() pulls a candidate from level i < N, level i + 1
\* holds a generator that was created in that call and has been pulled
\* exactly once, and its candidate is the first one of its model; with two
\* models and no sweep cut short the emitted runs are an initial part of the
\* product of the two candidate sequences, and the whole product when
\* next() has come to its end
C19_FreshInnerGeneratorAndProduct ==
  /\ [][NextReturned =>
          \A i \in 1..(r_n - 1) :
            r_st'.gens[i] # r_st.gens[i] =>
              LET first == MrcgNextConfig(r_cfg, MrcgInit(r_cfg, i + 1))
              IN  /\ r_st'.gens[i + 1] = first.m
                  /\ r_st'.cur[i + 1] = first.config]_vars
  /\ []((r_n = 2 /\ r_st.err = "ok" /\ ~r_hist.earlyStop) =>
          LET product == Product2(r_cfg)
          IN  /\ Len(r_emitted) <= Len(product)
              /\ \A k \in DOMAIN r_emitted : Slots(k) = product[k]
              /\ r_st.pc = "stop" => Len(r_emitted) = Len(product))

\* two models were swept to the end with results reported on the way
C19_Witness ==
  /\ r_n = 2
  /\ r_st.err = "ok"
  /\ ~r_hist.earlyStop
  /\ r_st.pc = "stop"
  /\ r_calls >= 2
  /\ Len(r_emitted) = 4

\* the last load configuration the generator m returned
CurrentPerfConfig(m) == m.pacg.configs[m.pacg.index]

\* C20: a RunConfig returned by next() has one entry per model, the i-th
\* being the candidate the generator of model i returned last, and the
\* innermost generator has been pulled in that call
C20_OneEntryPerModelInOrder ==
  [][r_emitted' # r_emitted =>
       LET slots == Last(r_emitted').model_run_configs
       IN  /\ Len(r_emitted') = Len(r_emitted) + 1
           /\ Len(slots) = r_n
           /\ \A i \in 1..r_n :
                /\ slots[i].model = i
                /\ slots[i] = r_st'.cur[i]
                /\ slots[i].mc = r_st'.gens[i].mc
                /\ slots[i].mc # NoModelConfig
                /\ slots[i].pa = CurrentPerfConfig(r_st'.gens[i])
           /\ r_st'.gens[r_n] # r_st.gens[r_n]
           /\ r_st'.pc = "yield"]_vars

\* two models, and the second RunConfig differs from the first only in the
\* entry of the second model
C20_Witness ==
  /\ r_n = 2
  /\ Len(r_emitted) >= 2
  /\ Slots(1)[1] = Slots(2)[1]
  /\ Slots(1)[2] # Slots(2)[2]
====
